---- MODULE Spec2Model ----
(***************************************************************************)
(* A state-machine model of the Gemini multimodal artifact chat: the       *)
(* conversation state manager of App.tsx, the click handlers of ChatInput  *)
(* and ChatPanel, the multimodal client of geminiService.ts and the        *)
(* reasoning-provider orchestration of the DeepSeek service                *)
(* (generateDeepSeekResponse, generateMixedResponse).                      *)
(*                                                                         *)
(* Text is modelled as sequences of Unicode code points wherever the code  *)
(* inspects characters (prompts, artifacts), and as string tokens where it *)
(* only copies it (provider replies, error messages).  One action of the   *)
(* model is one run-to-completion step of the JavaScript event loop: a     *)
(* handler from its start, or from the settling of the promise it awaits,  *)
(* up to its next await.                                                   *)
(***************************************************************************)
EXTENDS Integers, Sequences, FiniteSets, TLC

\* ------------------------------------------------------------------ bounds

\* User actions (send, generate image, edit image, OCR) started in one run.
MaxActions == 1

\* The user actions of a run in which actions may overlap.
MaxConcurrent == 2

\* Images chosen for one OCR job.
MaxImages == 3

\* Conversations in the list.
MaxConversations == 3

\* The last value of the millisecond clock.
MaxClock == 2

\* ------------------------------------------------------------- text helpers

\* String.prototype.toLowerCase on one code point (ASCII letters).
LowerChar(c) == IF c >= 65 /\ c <= 90 THEN c + 32 ELSE c

\* toLowerCase
ToLowerCase(s) == [i \in 1..Len(s) |-> LowerChar(s[i])]

\* String.prototype.includes: kw occurs in s as a contiguous substring.
Includes(s, kw) ==
  \E i \in 0..(Len(s) - Len(kw)) : \A j \in 1..Len(kw) : s[i + j] = kw[j]

\* White space for String.prototype.trim: space, tab, line feed, carriage return.
IsSpace(c) == c \in {32, 9, 10, 13}

\* String.prototype.trim
Trim(s) ==
  LET idx == {i \in 1..Len(s) : ~IsSpace(s[i])}
      Min(S) == CHOOSE x \in S : \A y \in S : x <= y
      Max(S) == CHOOSE x \in S : \A y \in S : x >= y
  IN  IF idx = {} THEN <<>> ELSE SubSeq(s, Min(idx), Max(idx))

\* An optional value (undefined / null or a value): <<>> or <<v>>.
None == <<>>
Some(v) == <<v>>

\* The nullish coalescing operator  o ?? d.
Coalesce(o, d) == IF o = None THEN d ELSE o[1]

\* --------------------------------------------------------- program constants

\* "New Chat", the default title of createNewConversation.
NewChatTitle == <<78, 101, 119, 32, 67, 104, 97, 116>>

\* The welcome message every new or cleared conversation starts with.
defaultWelcomeMessage ==
  [role |-> "model", tpl |-> "Hello! I'm your multimodal assistant.",
   args |-> <<>>, chars |-> <<>>, images |-> <<>>]

\* The placeholder artifact; the code points of its first characters "<!--".
defaultArtifactContent == <<60, 33, 45, 45>>

\* The artifact-intent keywords of generateMixedResponse, as code points:
\* create, generate, write, two Amharic verbs, code, component.
ArtifactKeywords ==
  { <<99, 114, 101, 97, 116, 101>>,
    <<103, 101, 110, 101, 114, 97, 116, 101>>,
    <<119, 114, 105, 116, 101>>,
    <<4845, 4941, 4896, 4649>>,
    <<4845, 4923, 4937>>,
    <<99, 111, 100, 101>>,
    <<99, 111, 109, 112, 111, 110, 101, 110, 116>> }

\* needsArtifact that looks for the keywords in the prompt as typed.
NeedsArtifact_caseSensitive(prompt) ==
  \E kw \in ArtifactKeywords : Includes(prompt, kw)

\* needsArtifact of generateMixedResponse.
NeedsArtifact(prompt) ==
  \E kw \in ArtifactKeywords : Includes(ToLowerCase(prompt), kw)

\* ------------------------------------------------------------------ inputs

\* Prompts the user types: "hi", "Code it", "decoder" (a keyword inside a
\* word) and the six words "a b c d e f", and the empty prompt (sent only
\* together with images).
PromptHi == <<104, 105>>
PromptCode == <<67, 111, 100, 101, 32, 105, 116>>
PromptDecoder == <<100, 101, 99, 111, 100, 101, 114>>
PromptSixWords == <<97, 32, 98, 32, 99, 32, 100, 32, 101, 32, 102>>
Prompts == {PromptHi, PromptCode, PromptDecoder, PromptSixWords}

\* Artifacts a provider may return: empty, white space only, "<f>", and the
\* placeholder itself.
ArtifactForm == <<60, 102, 62>>
ArtifactBlank == <<32, 10>>
ProviderArtifacts == {<<>>, ArtifactBlank, ArtifactForm, defaultArtifactContent}

\* ------------------------------------------------------------------- state

VARIABLES
  config,                \* the build: API keys present, and the generate operation in use
  conversations,         \* App state: the list of conversations
  activeConversationId,  \* App state: id of the conversation shown
  isLoading,             \* App state: the busy flag that disables the inputs
  error,                 \* App state: the last error message, None if none
  clock,                 \* Date.now(), in milliseconds
  act,                   \* the user actions started so far, each with its closure and position
  files                  \* the files handed to fileToBase64, each with its decoding and its result

vars == <<config, conversations, activeConversationId, isLoading, error, clock, act, files>>

\* createNewConversation(id, title)
createNewConversation(id, title) ==
  [id |-> id, title |-> title, messages |-> <<defaultWelcomeMessage>>,
   artifactContent |-> defaultArtifactContent, isArtifactVisible |-> FALSE]

\* A message of the chat history.  Its text is the template literal tpl of the
\* source with the string arguments args and the code-point argument chars.
Message(role, tpl, args, chars, images) ==
  [role |-> role, tpl |-> tpl, args |-> args, chars |-> chars, images |-> images]

\* conversations.find(c => c.id === id): the first conversation with that id.
FindConversation(convs, id) ==
  LET idx == {i \in 1..Len(convs) : convs[i].id = id}
  IN  IF idx = {} THEN None
      ELSE Some(convs[CHOOSE i \in idx : \A j \in idx : i <= j])

\* updateActiveConversation as called from a closure that captured the active
\* id: every conversation with that id is replaced by updater(conversation).
updateActiveConversation(convs, id, updater(_)) ==
  [i \in 1..Len(convs) |-> IF convs[i].id = id THEN updater(convs[i]) ELSE convs[i]]

\* The generate operation handleSendMessage is bound to: generateResponse of
\* geminiService, as App imports it, or generateMixedResponse of the DeepSeek
\* service, which routes between the providers.
GenerateOperations == {"generateResponse", "generateMixedResponse"}

\* The configurations a build can have: the DeepSeek module throws at load
\* time unless one of the two reasoning keys is set (the keys play no part
\* when generateResponse is bound, so one setting of them stands for all).
Configs ==
  { c \in [generate : GenerateOperations,
           DEEPSEEK_API_KEY : BOOLEAN, OPENROUTER_API_KEY : BOOLEAN] :
      /\ c.DEEPSEEK_API_KEY \/ c.OPENROUTER_API_KEY
      /\ c.generate = "generateResponse" =>
           (c.DEEPSEEK_API_KEY /\ c.OPENROUTER_API_KEY) }

\* A conversation saved by an earlier session, as the load effect restores it.
SavedConversation ==
  [id |-> 0, title |-> <<84, 114, 105, 112>>,
   messages |-> <<defaultWelcomeMessage,
                  Message("user", "${text}", <<>>, PromptHi, <<>>),
                  Message("model", "${chatResponse}", <<"T_gemini">>, <<>>, <<>>)>>,
   artifactContent |-> ArtifactForm, isArtifactVisible |-> TRUE]

\* The state after the load effect of App has run: either the saved
\* conversations or one fresh conversation named after the clock.
Init ==
  /\ config \in Configs
  /\ clock = 1
  /\ conversations \in {<<createNewConversation(1, NewChatTitle)>>, <<SavedConversation>>}
  /\ activeConversationId = conversations[1].id
  /\ isLoading = FALSE
  /\ error = None
  /\ act = <<>>
  /\ files = <<>>

\* -------------------------------------------------------- provider outcomes

\* What one HTTP call to a reasoning provider (fetch, then response.json())
\* can do: the fetch rejects; a non-success status; a success status whose
\* body has a choice, has no choices, or is not JSON.
HttpOutcomes == {"throw", "notok", "ok_valid", "ok_nochoices", "ok_badjson"}

\* The chat text a reasoning provider answers with.
ReasoningText(provider) ==
  IF provider = "DeepSeek" THEN "T_deepseek" ELSE "T_openrouter"

\* What ai.models.generateContent can do for generateResponse: reject with a
\* message, or resolve with a response whose text is absent, or present with
\* or without the braces of a JSON object, parsing or not, holding or not the
\* two fields.
GeminiThrows ==
  { [thrown |-> TRUE, msg |-> m, hasText |-> FALSE, startsBrace |-> FALSE,
     endsBrace |-> FALSE, parses |-> FALSE, chatResponse |-> None,
     artifactContent |-> None] : m \in {"xhr error", "quota exceeded"} }

GeminiTexts ==
  { r \in [thrown : {FALSE}, msg : {""}, hasText : BOOLEAN, startsBrace : BOOLEAN,
           endsBrace : BOOLEAN, parses : {FALSE}, chatResponse : {None},
           artifactContent : {None}] :
      r.hasText \/ (~r.startsBrace /\ ~r.endsBrace) }

GeminiObjects ==
  { [thrown |-> FALSE, msg |-> "", hasText |-> TRUE, startsBrace |-> TRUE,
     endsBrace |-> TRUE, parses |-> TRUE, chatResponse |-> c,
     artifactContent |-> a] :
       c \in {None, Some("T_gemini")},
       a \in {None} \cup {Some(x) : x \in ProviderArtifacts} }

GeminiOutcomes == GeminiThrows \cup GeminiTexts \cup GeminiObjects

\* The outcome of a call as the attempt log names it.
GeminiOutcomeName(g) ==
  IF g.thrown THEN "throw"
  ELSE IF ~g.hasText THEN "empty"
  ELSE IF ~(g.startsBrace /\ g.endsBrace) THEN "nonjson"
  ELSE IF ~g.parses THEN "parsefail"
  ELSE "ok"

\* ------------------------------------------------------------ geminiService

\* handleApiError(error, operation): the message of the Error it returns.
handleApiError(msg, operation) ==
  IF \E i \in 1..Len(msg) : msg[i] \in {"xhr error", "rpc failed", "500"}
  THEN <<"The ", operation,
         " failed due to a network issue or an overly large request. Please try again, perhaps with fewer or smaller images.">>
  ELSE <<"The ", operation, " failed: ">> \o msg

\* generateResponseTry without the previousArtifact default.
generateResponseTry_noDefault(g, previousArtifact) ==
  IF g.thrown \/ ~g.hasText \/ ~(g.startsBrace /\ g.endsBrace) \/ ~g.parses
  THEN [ok |-> FALSE, msg |-> <<"failed">>]
  ELSE [ok |-> TRUE,
        chatResponse |-> Coalesce(g.chatResponse, "default"),
        artifactContent |-> Coalesce(g.artifactContent, <<>>)]

\* generateResponseTry without the test of the braces: a text that is no
\* object resolves with the defaults.
generateResponseTry_noBraceCheck(g, previousArtifact) ==
  IF g.thrown THEN [ok |-> FALSE, msg |-> <<g.msg>>]
  ELSE IF ~g.hasText
    THEN [ok |-> FALSE, msg |-> <<"Received an empty or invalid response from the API.">>]
  ELSE [ok |-> TRUE,
        chatResponse |->
          Coalesce(g.chatResponse,
                   "I'm not sure how to respond to that, but here's the artifact."),
        artifactContent |-> Coalesce(g.artifactContent, previousArtifact)]

\* The body of the try block of generateResponse after the provider call has
\* settled with g: the result, or the message of the error thrown.
generateResponseTry(g, previousArtifact) ==
  IF g.thrown THEN [ok |-> FALSE, msg |-> <<g.msg>>]
  ELSE IF ~g.hasText
    THEN [ok |-> FALSE, msg |-> <<"Received an empty or invalid response from the API.">>]
  ELSE IF ~g.startsBrace \/ ~g.endsBrace
    THEN [ok |-> FALSE, msg |-> <<"Received a non-JSON response from the API.">>]
  ELSE IF ~g.parses
    THEN [ok |-> FALSE, msg |-> <<"Unexpected token in JSON">>]
  ELSE [ok |-> TRUE,
        chatResponse |->
          Coalesce(g.chatResponse,
                   "I'm not sure how to respond to that, but here's the artifact."),
        artifactContent |-> Coalesce(g.artifactContent, previousArtifact)]

\* generateResponse: the result it resolves with, or the message of the error
\* it rejects with (every error goes through handleApiError).
generateResponse(g, previousArtifact) ==
  LET r == generateResponseTry(g, previousArtifact)
  IN  IF r.ok THEN r
      ELSE [ok |-> FALSE, msg |-> handleApiError(r.msg, "Chat Response")]

\* The title texts the title call may answer with: " Form " and two quotes.
TitleTexts == {<<32, 70, 111, 114, 109, 32>>, <<34, 34>>}

\* What the provider call of generateTitleFromContent can do.
TitleOutcomes ==
  {[thrown |-> TRUE, text |-> None], [thrown |-> FALSE, text |-> None]}
    \cup {[thrown |-> FALSE, text |-> Some(t)] : t \in TitleTexts}

\* String.prototype.split(' '): the pieces between single spaces.
RECURSIVE SplitSpace(_)
SplitSpace(s) ==
  LET sp == {i \in 1..Len(s) : s[i] = 32}
  IN  IF sp = {} THEN <<s>>
      ELSE LET k == CHOOSE i \in sp : \A j \in sp : i <= j
           IN  <<SubSeq(s, 1, k - 1)>> \o SplitSpace(SubSeq(s, k + 1, Len(s)))

\* Array.prototype.join(' ')
RECURSIVE JoinSpace(_)
JoinSpace(ws) ==
  IF Len(ws) = 0 THEN <<>>
  ELSE IF Len(ws) = 1 THEN ws[1]
  ELSE ws[1] \o <<32>> \o JoinSpace(Tail(ws))

\* s.substring(0, n)
Substring0(s, n) == SubSeq(s, 1, IF Len(s) < n THEN Len(s) ELSE n)

\* s.replace(/"/g, '')
StripQuotes(s) == SelectSeq(s, LAMBDA c : c # 34)

\* "..."
Ellipsis == <<46, 46, 46>>

\* generateTitleFromContent whose catch block returns the prompt as it is.
generateTitleFromContent_promptOnError(prompt, t) ==
  IF t.thrown \/ t.text = None THEN prompt ELSE StripQuotes(Trim(t.text[1]))

\* generateTitleFromContent(prompt): the title it resolves with once its
\* provider call has settled with t; it catches every error itself.
generateTitleFromContent(prompt, t) ==
  IF t.thrown
  THEN LET words == SplitSpace(prompt)
       IN  IF Len(words) > 5 THEN JoinSpace(SubSeq(words, 1, 5)) \o Ellipsis
           ELSE prompt
  ELSE IF t.text = None \/ t.text = Some(<<>>) THEN Substring0(prompt, 30)
  ELSE LET stripped == StripQuotes(Trim(t.text[1]))
           title == IF Len(stripped) > 50
                    THEN Substring0(stripped, 47) \o Ellipsis ELSE stripped
       IN  IF title = <<>> THEN Substring0(prompt, 30) ELSE title

\* -------------------------------------------------- DeepSeek service (mixed)

\* One attempt of the per-turn attempt log.
Attempt(provider, outcome) == [provider |-> provider, outcome |-> outcome]

\* Settle for a call that is not awaited: its attempt stays in flight.
Settle_notAwaited(calls, outcome) == calls

\* The log with the outcome of its last, pending attempt filled in.
Settle(calls, outcome) ==
  [calls EXCEPT ![Len(calls)] = Attempt(calls[Len(calls)].provider, outcome)]

\* generateDeepSeekResponse from its start to its first fetch: DeepSeek when
\* its key is set, else OpenRouter (whose key is then set).
generateDeepSeekResponseStart(cfg) ==
  IF cfg.DEEPSEEK_API_KEY THEN "DeepSeek" ELSE "OpenRouter"

\* The error of the outer catch of generateDeepSeekResponse.
DeepSeekChatFailed(msg) == <<"DeepSeek chat failed: ">> \o msg

\* generateDeepSeekResponseStep that falls back only when the DeepSeek fetch
\* raises, not on a non-success status.
generateDeepSeekResponseStep_noStatusFallback(cfg, provider, o) ==
  IF provider = "DeepSeek" /\ o = "throw" /\ cfg.OPENROUTER_API_KEY
  THEN [next |-> "fetch", chatResponse |-> "", msg |-> <<>>]
  ELSE IF o = "ok_valid"
  THEN [next |-> "return", chatResponse |-> ReasoningText(provider), msg |-> <<>>]
  ELSE [next |-> "throw", chatResponse |-> "", msg |-> DeepSeekChatFailed(<<"failed">>)]

\* generateDeepSeekResponseStep that gives up when the DeepSeek fetch raises.
generateDeepSeekResponseStep_noFallback(cfg, provider, o) ==
  IF o = "ok_valid"
  THEN [next |-> "return", chatResponse |-> ReasoningText(provider), msg |-> <<>>]
  ELSE [next |-> "throw", chatResponse |-> "", msg |-> DeepSeekChatFailed(<<"failed">>)]

\* generateDeepSeekResponseStep that also falls back when DeepSeek's reply
\* has a success status and an unusable body.
generateDeepSeekResponseStep_fallbackOnBody(cfg, provider, o) ==
  IF provider = "DeepSeek" /\ o # "ok_valid" /\ cfg.OPENROUTER_API_KEY
  THEN [next |-> "fetch", chatResponse |-> "", msg |-> <<>>]
  ELSE IF o = "ok_valid"
  THEN [next |-> "return", chatResponse |-> ReasoningText(provider), msg |-> <<>>]
  ELSE [next |-> "throw", chatResponse |-> "", msg |-> DeepSeekChatFailed(<<"failed">>)]

\* generateDeepSeekResponseStep that fetches from OpenRouter again after
\* OpenRouter has failed.
generateDeepSeekResponseStep_retry(cfg, provider, o) ==
  IF o \in {"throw", "notok"}
  THEN IF ~cfg.OPENROUTER_API_KEY
       THEN [next |-> "throw", chatResponse |-> "",
             msg |-> DeepSeekChatFailed(<<"Both DeepSeek and OpenRouter unavailable">>)]
       ELSE [next |-> "fetch", chatResponse |-> "", msg |-> <<>>]
  ELSE IF o \in {"ok_badjson", "ok_nochoices"}
    THEN [next |-> "throw", chatResponse |-> "",
          msg |-> DeepSeekChatFailed(<<"No response from DeepSeek API">>)]
  ELSE [next |-> "return", chatResponse |-> ReasoningText(provider), msg |-> <<>>]

\* generateDeepSeekResponse after the fetch to `provider` has settled with
\* outcome o: it issues the OpenRouter fetch (next = "fetch"), resolves with
\* the chat text (next = "return") or rejects (next = "throw").
generateDeepSeekResponseStep(cfg, provider, o) ==
  IF provider = "DeepSeek" /\ o \in {"throw", "notok"}
  THEN IF ~cfg.OPENROUTER_API_KEY
       THEN [next |-> "throw", chatResponse |-> "",
             msg |-> DeepSeekChatFailed(<<"Both DeepSeek and OpenRouter unavailable">>)]
       ELSE [next |-> "fetch", chatResponse |-> "", msg |-> <<>>]
  ELSE IF o = "throw"
    THEN [next |-> "throw", chatResponse |-> "",
          msg |-> DeepSeekChatFailed(<<"Failed to fetch">>)]
  ELSE IF o = "notok"
    THEN [next |-> "throw", chatResponse |-> "",
          msg |-> DeepSeekChatFailed(<<"DeepSeek API error: ", "status", " - ", "Unknown error">>)]
  ELSE IF o = "ok_badjson"
    THEN [next |-> "throw", chatResponse |-> "",
          msg |-> DeepSeekChatFailed(<<"Unexpected token in JSON">>)]
  ELSE IF o = "ok_nochoices"
    THEN [next |-> "throw", chatResponse |-> "",
          msg |-> DeepSeekChatFailed(<<"No response from DeepSeek API">>)]
  ELSE [next |-> "return", chatResponse |-> ReasoningText(provider), msg |-> <<>>]

\* The value generateDeepSeekResponse resolves with: the chat text and an
\* empty artifact.
deepSeekResponse(chatResponse) ==
  [ok |-> TRUE, chatResponse |-> chatResponse, artifactContent |-> <<>>]

\* generateMixedResponseMerge that returns the secondary call's whole reply.
generateMixedResponseMerge_geminiReply(chatResponse, g, previousArtifact) ==
  LET geminiResult == generateResponse(g, previousArtifact)
  IN  IF geminiResult.ok THEN geminiResult ELSE deepSeekResponse(chatResponse)

\* generateMixedResponseMerge that lets the secondary call's error through.
generateMixedResponseMerge_rethrow(chatResponse, g, previousArtifact) ==
  LET geminiResult == generateResponse(g, previousArtifact)
  IN  IF geminiResult.ok
      THEN [ok |-> TRUE, chatResponse |-> chatResponse,
            artifactContent |-> geminiResult.artifactContent]
      ELSE geminiResult

\* The needsArtifact branch of generateMixedResponse once the secondary
\* generateResponse call has settled with g.
generateMixedResponseMerge(chatResponse, g, previousArtifact) ==
  LET geminiResult == generateResponse(g, previousArtifact)
  IN  IF geminiResult.ok
      THEN [ok |-> TRUE, chatResponse |-> chatResponse,
            artifactContent |-> geminiResult.artifactContent]
      ELSE deepSeekResponse(chatResponse)

\* What the provider call of generateImage can do: reject, or resolve with
\* no image or with one.
ImageOutcomes ==
  { [thrown |-> TRUE, msg |-> "xhr error", generatedImages |-> <<>>],
    [thrown |-> FALSE, msg |-> "", generatedImages |-> <<>>],
    [thrown |-> FALSE, msg |-> "", generatedImages |-> <<"imageBytes">>] }

\* generateImage once its provider call has settled with o.
generateImage(o) ==
  IF o.thrown
  THEN [ok |-> FALSE, msg |-> handleApiError(<<o.msg>>, "Image Generation"), image |-> None]
  ELSE IF Len(o.generatedImages) > 0
  THEN [ok |-> TRUE, msg |-> <<>>, image |-> Some(o.generatedImages[1])]
  ELSE [ok |-> FALSE, image |-> None,
        msg |-> handleApiError(<<"No image was generated by the API.">>, "Image Generation")]

\* What the provider call of editImage can do: reject, or resolve with the
\* text and image parts of its first candidate, either of which may be absent.
EditOutcomes ==
  { [thrown |-> TRUE, msg |-> "quota exceeded", text |-> None, imageBase64 |-> None] }
    \cup { [thrown |-> FALSE, msg |-> "", text |-> t, imageBase64 |-> i] :
             t \in {None, Some("edited")}, i \in {None, Some("imageBytes")} }

\* editImage once its provider call has settled with o.
editImage(o) ==
  IF o.thrown
  THEN [ok |-> FALSE, msg |-> handleApiError(<<o.msg>>, "Image Editing"),
        text |-> None, imageBase64 |-> None]
  ELSE IF o.text = None /\ o.imageBase64 = None
  THEN [ok |-> FALSE, text |-> None, imageBase64 |-> None,
        msg |-> handleApiError(<<"No content was generated by the API.">>, "Image Editing")]
  ELSE [ok |-> TRUE, msg |-> <<>>, text |-> o.text, imageBase64 |-> o.imageBase64]

\* ------------------------------------------------------------- OCR pipeline

\* The Ethiopic block U+1200..U+137F.
IsEthiopic(c) == c >= 4608 /\ c <= 4991

\* /[ሀ-፿]/.test(text)
hasAmharic(text) == \E i \in 1..Len(text) : IsEthiopic(text[i])

\* The vowelled letters after which a leading U+1240 is corrected to U+1245.
QeFollowers == {4845, 4841, 4840, 4846, 4842, 4818}

\* applyOfflineAmharicCorrections with a rule that rewrites the Latin letter b.
applyOfflineAmharicCorrections_latinRule(text) ==
  [i \in 1..Len(text) |-> IF text[i] = 98 THEN 100 ELSE text[i]]

\* applyOfflineAmharicCorrections: four letter substitutions, then U+1240
\* before one of the followers becomes U+1245.
applyOfflineAmharicCorrections(text) ==
  LET sub(c) == IF c = 4640 THEN 4656
                ELSE IF c = 4771 THEN 4768
                ELSE IF c = 4611 THEN 4608
                ELSE IF c = 4775 THEN 4773
                ELSE c
      corrected == [i \in 1..Len(text) |-> sub(text[i])]
  IN  [i \in 1..Len(corrected) |->
         IF corrected[i] = 4672 /\ i < Len(corrected) /\ corrected[i + 1] \in QeFollowers
         THEN 4677 ELSE corrected[i]]

\* preprocessImage that hands on an enhanced image also for a task that
\* failed.
preprocessImage_noFallback(image, enhanceOk) ==
  [mimeType |-> "image/png", data |-> [image.data EXCEPT !.enhanced = TRUE]]

\* The image a preprocessing task of performOcr resolves with: the enhanced
\* PNG, or the original for a GIF and when enhanceImageForOcr rejects.
preprocessImage(image, enhanceOk) ==
  IF image.mimeType # "image/gif" /\ enhanceOk
  THEN [mimeType |-> "image/png", data |-> [image.data EXCEPT !.enhanced = TRUE]]
  ELSE image

\* extractParts for a request per image: the part of the first image only.
extractParts_firstImage(processedImages) ==
  [i \in 1..1 |->
     [inlineData |-> [mimeType |-> processedImages[i].mimeType,
                      data |-> processedImages[i].data]]]

\* The image parts of the one Extract request of performOcr: an inlineData
\* part for each processed image, pushed in the order of the images.
extractParts(processedImages) ==
  [i \in 1..Len(processedImages) |->
     [inlineData |-> [mimeType |-> processedImages[i].mimeType,
                      data |-> processedImages[i].data]]]

\* The image parts of the request of the second performOcr of the file: an
\* inlineData part for each image of the input, in the order of the input.
performOcrParts(images) ==
  [i \in 1..Len(images) |->
     [inlineData |-> [mimeType |-> images[i].mimeType, data |-> images[i].data]]]

\* Texts the Extract call may answer with: "No text found.", "ab " and two
\* Ethiopic samples holding letters of the correction table.
NoTextFound == <<110, 111, 32, 116, 101, 120, 116, 32, 102, 111, 117, 110, 100, 46>>
ExtractTexts ==
  { <<78, 111, 32, 116, 101, 120, 116, 32, 102, 111, 117, 110, 100, 46>>,
    <<97, 98, 32>>, <<4640, 97>>, <<32, 4672, 4845>> }

\* What the Extract call can do: reject, or resolve with text, or with no
\* text and a finish reason (or none).
ExtractOutcomes ==
  { [thrown |-> TRUE, msg |-> "500", text |-> None, finishReason |-> None] }
    \cup { [thrown |-> FALSE, msg |-> "", text |-> None, finishReason |-> f] :
             f \in {None, Some("SAFETY"), Some("STOP"), Some("MAX_TOKENS")} }
    \cup { [thrown |-> FALSE, msg |-> "", text |-> Some(t), finishReason |-> Some("STOP")] :
             t \in ExtractTexts }

\* Texts the Organize call may answer with.
OrganizeTexts == { <<35, 32, 97, 98, 10>>, <<4640, 98>>, <<32>> }

\* What the Organize call can do: reject, or resolve with text or without.
OrganizeOutcomes ==
  { [thrown |-> TRUE, text |-> None], [thrown |-> FALSE, text |-> None] }
    \cup { [thrown |-> FALSE, text |-> Some(t)] : t \in OrganizeTexts }

\* A text performOcr resolves with: a fixed sentence or extracted characters.
OcrText(lit, chars) == [lit |-> lit, chars |-> chars]

\* performOcrExtracted that takes every reply without text for an empty page.
performOcrExtracted_noClassification(o) ==
  IF o.thrown
  THEN [next |-> "throw", msg |-> handleApiError(<<o.msg>>, "OCR Operation"),
        text |-> OcrText("", <<>>)]
  ELSE IF o.text = None
  THEN [next |-> "return", msg |-> <<>>,
        text |-> OcrText("No text could be extracted from the provided image(s). They may be empty or unclear.", <<>>)]
  ELSE [next |-> "organize", msg |-> <<>>, text |-> OcrText("", Trim(o.text[1]))]

\* performOcr once the Extract call has settled with o: it rejects
\* (next = "throw"), resolves (next = "return") or calls Organize with the
\* trimmed transcription (next = "organize").
performOcrExtracted(o) ==
  LET none == OcrText("", <<>>)
  IN
  IF o.thrown
  THEN [next |-> "throw", msg |-> handleApiError(<<o.msg>>, "OCR Operation"), text |-> none]
  ELSE IF o.text = None \/ o.text = Some(<<>>)
  THEN IF o.finishReason = Some("SAFETY")
       THEN [next |-> "throw", text |-> none,
             msg |-> handleApiError(
               <<"The OCR request was blocked due to safety settings. Please check the input images.">>,
               "OCR Operation")]
       ELSE IF o.finishReason # None /\ o.finishReason # Some("STOP")
       THEN [next |-> "throw", text |-> none,
             msg |-> handleApiError(
               <<"OCR failed. The model stopped for reason: ", o.finishReason[1], ".">>,
               "OCR Operation")]
       ELSE [next |-> "return", msg |-> <<>>,
             text |-> OcrText("No text could be extracted from the provided image(s). They may be empty or unclear.", <<>>)]
  ELSE IF ToLowerCase(Trim(o.text[1])) = NoTextFound
  THEN [next |-> "return", msg |-> <<>>,
        text |-> OcrText("No text could be extracted from the provided image(s).", <<>>)]
  ELSE [next |-> "organize", msg |-> <<>>, text |-> OcrText("", Trim(o.text[1]))]

\* organizeExtractedContent that answers with the empty text when its call
\* fails.
organizeExtractedContent_noRawText(rawText, o) ==
  IF o.thrown \/ o.text = None THEN <<>> ELSE Trim(o.text[1])

\* organizeExtractedContent once its provider call has settled with o: the
\* trimmed answer, or the raw text when the call fails or answers nothing.
organizeExtractedContent(rawText, o) ==
  IF o.thrown \/ o.text = None THEN rawText
  ELSE IF Trim(o.text[1]) = <<>> THEN rawText
  ELSE Trim(o.text[1])

\* performOcr after Organize: the corrections are applied when the trimmed
\* transcription held Ethiopic characters.
performOcrOrganized(trimmedText, organizedText) ==
  IF hasAmharic(trimmedText) THEN applyOfflineAmharicCorrections(organizedText)
  ELSE organizedText

\* ------------------------------------------------------------------ App.tsx

\* The images fileToBase64 hands to a handler: JPEG, one per chosen file.
EncodedImages(n) ==
  [i \in 1..n |-> [mimeType |-> "image/jpeg", data |-> [file |-> i, enhanced |-> FALSE]]]

\* The data URLs a user message shows for its images.
DataUrls(images) == [i \in 1..Len(images) |-> images[i].data]

\* A user action at its start: the closure it runs in (the active
\* conversation and its id as rendered when the user clicked) and its inputs.
\* calls is the attempt log of the provider calls made so far; gemini,
\* titleReply, extract and organize keep what the generateResponse, title,
\* Extract and Organize call of the action settled with.
NewAction(kind, conv, prompt, images) ==
  [kind |-> kind, pc |-> "Start", convId |-> conv.id, conv |-> conv,
   prompt |-> prompt, images |-> images, updatedMessages |-> <<>>,
   calls |-> <<>>, chatResponse |-> "", result |-> None, errorMessage |-> <<>>,
   gemini |-> None, preprocessFailed |-> {}, processedImages |-> <<>>,
   submitted |-> <<>>, titleReply |-> None, extract |-> None, organize |-> None,
   trimmedText |-> <<>>,
   organizedText |-> <<>>, extractedText |-> None]

\* The list of actions with action a (a new one, or one under way) set to v.
Put(actions, a, v) ==
  IF a = Len(actions) + 1 THEN Append(actions, v) ELSE [actions EXCEPT ![a] = v]

\* responseUpdater that stores the result's artifact whatever it is.
responseUpdater_overwrite(conv, updatedMessages, response) ==
  [conv EXCEPT !.messages =
                  Append(updatedMessages,
                         Message("model", "${chatResponse}", <<response.chatResponse>>, <<>>, <<>>)),
               !.artifactContent = response.artifactContent]

\* responseUpdater that opens the panel for every non-blank artifact.
responseUpdater_anyArtifact(conv, updatedMessages, response) ==
  LET nonBlank == Trim(response.artifactContent) # <<>>
      modelMessage == Message("model", "${chatResponse}", <<response.chatResponse>>, <<>>, <<>>)
  IN  [conv EXCEPT !.messages = Append(updatedMessages, modelMessage),
                   !.artifactContent =
                      IF nonBlank THEN response.artifactContent ELSE conv.artifactContent,
                   !.isArtifactVisible = conv.isArtifactVisible \/ nonBlank]

\* The updater of handleSendMessage's try block: the reply is appended to the
\* snapshot of the history; a non-blank artifact replaces the artifact; the
\* panel opens for a new artifact.
responseUpdater(conv, updatedMessages, response) ==
  LET nonBlank == Trim(response.artifactContent) # <<>>
      hasNewArtifact == /\ nonBlank
                        /\ response.artifactContent # conv.artifactContent
                        /\ response.artifactContent # defaultArtifactContent
      modelMessage == Message("model", "${chatResponse}", <<response.chatResponse>>, <<>>, <<>>)
  IN  [conv EXCEPT !.messages = Append(updatedMessages, modelMessage),
                   !.artifactContent =
                      IF nonBlank THEN response.artifactContent ELSE conv.artifactContent,
                   !.isArtifactVisible = conv.isArtifactVisible \/ hasNewArtifact]

\* errorUpdater that restores the snapshot without the failure entry.
errorUpdater_noEntry(conv, updatedMessages, tpl, errorMessage) ==
  [conv EXCEPT !.messages = updatedMessages]

\* The updater of a handler's catch block: the failure entry is appended to
\* the snapshot of the history.
errorUpdater(conv, updatedMessages, tpl, errorMessage) ==
  [conv EXCEPT !.messages =
     Append(updatedMessages, Message("model", tpl, errorMessage, <<>>, <<>>))]

\* generateStart that routes on the build alone, not on the images.
generateStart_ignoringImages(cfg, images) ==
  IF cfg.generate = "generateMixedResponse"
  THEN generateDeepSeekResponseStart(cfg)
  ELSE "Gemini"

\* The first provider call of the generate operation the build uses: the
\* multimodal client directly, or through generateMixedResponse the reasoning
\* providers for a text-only request and the multimodal client otherwise.
generateStart(cfg, images) ==
  IF cfg.generate = "generateMixedResponse" /\ Len(images) = 0
  THEN generateDeepSeekResponseStart(cfg)
  ELSE "Gemini"

\* The program position while a call to `provider` is in flight.
CallPc(provider) ==
  IF provider = "DeepSeek" THEN "DeepSeekCall"
  ELSE IF provider = "OpenRouter" THEN "OpenRouterCall"
  ELSE "GeminiCall"

\* handleSendMessage from the title on: the user message is appended to the
\* snapshot, the conversation updated, and generate called up to its first
\* provider call.
sendAfterTitle(a, slot, newTitle, loading, err) ==
  LET userMessage == Message("user", "${text}", <<>>, slot.prompt, DataUrls(slot.images))
      updatedMessages == Append(slot.conv.messages, userMessage)
      provider == generateStart(config, slot.images)
  IN  /\ conversations' =
           updateActiveConversation(conversations, slot.convId,
             LAMBDA conv : [conv EXCEPT !.title = newTitle, !.messages = updatedMessages])
      /\ isLoading' = loading
      /\ error' = err
      /\ act' = Put(act, a, [slot EXCEPT !.pc = CallPc(provider),
                                         !.updatedMessages = updatedMessages,
                                         !.calls = <<Attempt(provider, "pending")>>])
      /\ UNCHANGED <<files, config, activeConversationId, clock>>

\* handleSendMessage from its start to its first await: the title call for
\* the first message of a "New Chat", else the first provider call.
handleSendMessage(a, slot) ==
  IF slot.conv.title = NewChatTitle /\ Len(slot.conv.messages) = 1
  THEN /\ isLoading' = TRUE
       /\ error' = None
       /\ act' = Put(act, a, [slot EXCEPT !.pc = "TitleCall"])
       /\ UNCHANGED <<files, config, conversations, activeConversationId, clock>>
  ELSE sendAfterTitle(a, slot, slot.conv.title, TRUE, None)

\* sendSettled without the finally block.
sendSettled_noFinally(a, slot, r) ==
  /\ conversations' =
       updateActiveConversation(conversations, slot.convId,
         LAMBDA conv :
           IF r.ok THEN responseUpdater(conv, slot.updatedMessages, r)
           ELSE errorUpdater(conv, slot.updatedMessages,
                             "Sorry, something went wrong: ${errorMessage}", r.msg))
  /\ error' = IF r.ok THEN error ELSE Some(r.msg)
  /\ act' = [act EXCEPT ![a] =
       [slot EXCEPT !.pc = IF r.ok THEN "Resolved" ELSE "Failed",
                    !.result = IF r.ok
                               THEN Some([chatResponse |-> r.chatResponse,
                                          artifactContent |-> r.artifactContent])
                               ELSE None,
                    !.errorMessage = IF r.ok THEN <<>> ELSE r.msg]]
  /\ UNCHANGED <<files, config, activeConversationId, clock, isLoading>>

\* sendSettled that delivers the outcome and leaves the turn in its call.
sendSettled_notTerminal(a, slot, r) ==
  /\ conversations' =
       updateActiveConversation(conversations, slot.convId,
         LAMBDA conv :
           IF r.ok THEN responseUpdater(conv, slot.updatedMessages, r)
           ELSE errorUpdater(conv, slot.updatedMessages,
                             "Sorry, something went wrong: ${errorMessage}", r.msg))
  /\ error' = IF r.ok THEN error ELSE Some(r.msg)
  /\ isLoading' = FALSE
  /\ act' = [act EXCEPT ![a] =
       [slot EXCEPT !.result = IF r.ok
                               THEN Some([chatResponse |-> r.chatResponse,
                                          artifactContent |-> r.artifactContent])
                               ELSE None,
                    !.errorMessage = IF r.ok THEN <<>> ELSE r.msg]]
  /\ UNCHANGED <<files, config, activeConversationId, clock>>

\* handleSendMessage after generate has settled with r: the try block's
\* update or the catch block's, then finally.
sendSettled(a, slot, r) ==
  /\ conversations' =
       updateActiveConversation(conversations, slot.convId,
         LAMBDA conv :
           IF r.ok THEN responseUpdater(conv, slot.updatedMessages, r)
           ELSE errorUpdater(conv, slot.updatedMessages,
                             "Sorry, something went wrong: ${errorMessage}", r.msg))
  /\ error' = IF r.ok THEN error ELSE Some(r.msg)
  /\ isLoading' = FALSE
  /\ act' = [act EXCEPT ![a] =
       [slot EXCEPT !.pc = IF r.ok THEN "Resolved" ELSE "Failed",
                    !.result = IF r.ok
                               THEN Some([chatResponse |-> r.chatResponse,
                                          artifactContent |-> r.artifactContent])
                               ELSE None,
                    !.errorMessage = IF r.ok THEN <<>> ELSE r.msg]]
  /\ UNCHANGED <<files, config, activeConversationId, clock>>

\* ------------------------------------------------------------------ actions

\* The active conversation as the current render shows it.
activeConversation == FindConversation(conversations, activeConversationId)

\* CanStart for controls that stay enabled while the application is busy.
CanStart_whileBusy(limit) ==
  /\ activeConversation # None
  /\ Len(act) < limit

\* A control that starts a user action is enabled: not busy, a conversation
\* is shown, and the run's budget of actions is not used up.
CanStart(limit) ==
  /\ ~isLoading
  /\ activeConversation # None
  /\ Len(act) < limit

\* ChatInput.handleSend: with images it first awaits their conversion, else
\* it calls onSendMessage at once.
handleSend(limit, prompts) ==
  \E text \in prompts \cup {<<>>}, n \in 0..1 :
    /\ CanStart(limit)
    /\ ~(Trim(text) = <<>> /\ n = 0)
    /\ LET a == Len(act) + 1
           slot == NewAction("send", activeConversation[1], text, EncodedImages(n))
       IN  IF n > 0
           THEN /\ act' = Put(act, a, [slot EXCEPT !.pc = "Converting"])
                /\ UNCHANGED <<files, config, conversations, activeConversationId,
                               isLoading, error, clock>>
           ELSE handleSendMessage(a, slot)

\* The image conversion of a send settles: the handler captured at the click
\* is called, or on a conversion error the user is alerted and nothing is sent.
SendConverted ==
  \E a \in 1..Len(act), ok \in BOOLEAN :
    /\ act[a].kind = "send"
    /\ act[a].pc = "Converting"
    /\ IF ok THEN handleSendMessage(a, act[a])
       ELSE /\ act' = [act EXCEPT ![a].pc = "Aborted"]
            /\ UNCHANGED <<files, config, conversations, activeConversationId,
                           isLoading, error, clock>>

\* The title call of a send settles.
TitleReturn(outcomes) ==
  \E a \in 1..Len(act), t \in outcomes :
    /\ act[a].pc = "TitleCall"
    /\ sendAfterTitle(a, [act[a] EXCEPT !.titleReply = Some(t)],
                      generateTitleFromContent(act[a].prompt, t), isLoading, error)

\* The fetch of generateDeepSeekResponse to DeepSeek or OpenRouter settles.
ReasoningReturn(outcomes) ==
  \E a \in 1..Len(act), o \in outcomes :
    LET slot == act[a]
        provider == slot.calls[Len(slot.calls)].provider
        step == generateDeepSeekResponseStep(config, provider, o)
        settled == [slot EXCEPT !.calls = Settle(slot.calls, o)]
    IN  /\ slot.pc \in {"DeepSeekCall", "OpenRouterCall"}
        /\ IF step.next = "fetch"
           THEN /\ act' = [act EXCEPT ![a] =
                     [settled EXCEPT !.pc = "OpenRouterCall",
                                     !.calls = Append(settled.calls,
                                                      Attempt("OpenRouter", "pending"))]]
                /\ UNCHANGED <<files, config, conversations, activeConversationId,
                               isLoading, error, clock>>
           ELSE IF step.next = "throw"
           THEN sendSettled(a, settled, [ok |-> FALSE, msg |-> step.msg])
           ELSE IF NeedsArtifact(slot.prompt)
           THEN /\ act' = [act EXCEPT ![a] =
                     [settled EXCEPT !.pc = "ArtifactCall",
                                     !.chatResponse = step.chatResponse,
                                     !.calls = Append(settled.calls,
                                                      Attempt("Gemini", "pending"))]]
                /\ UNCHANGED <<files, config, conversations, activeConversationId,
                               isLoading, error, clock>>
           ELSE sendSettled(a, [settled EXCEPT !.chatResponse = step.chatResponse],
                            deepSeekResponse(step.chatResponse))

\* The secondary generateResponse call of generateMixedResponse settles.
ArtifactReturn(outcomes) ==
  \E a \in 1..Len(act), g \in outcomes :
    LET slot == act[a]
        settled == [slot EXCEPT !.calls = Settle(slot.calls, GeminiOutcomeName(g)),
                                !.gemini = Some(g)]
    IN  /\ slot.pc = "ArtifactCall"
        /\ sendSettled(a, settled,
             generateMixedResponseMerge(slot.chatResponse, g, slot.conv.artifactContent))

\* The generateResponse call of a turn routed to the multimodal client settles.
GeminiReturn(outcomes) ==
  \E a \in 1..Len(act), g \in outcomes :
    LET slot == act[a]
        settled == [slot EXCEPT !.calls = Settle(slot.calls, GeminiOutcomeName(g)),
                                !.gemini = Some(g)]
    IN  /\ slot.pc = "GeminiCall"
        /\ sendSettled(a, settled, generateResponse(g, slot.conv.artifactContent))

\* A handler other than handleSendMessage from its start to its provider
\* call: the user message is appended to the snapshot, the conversation
\* updated and the busy flag set.
startAction(a, slot, userMessage, pc, provider) ==
  LET updatedMessages == Append(slot.conv.messages, userMessage)
  IN  /\ conversations' =
           updateActiveConversation(conversations, slot.convId,
             LAMBDA conv : [conv EXCEPT !.messages = updatedMessages])
      /\ isLoading' = TRUE
      /\ error' = None
      /\ act' = Put(act, a, [slot EXCEPT !.pc = pc,
                                         !.updatedMessages = updatedMessages,
                                         !.calls = <<Attempt(provider, "pending")>>])
      /\ UNCHANGED <<files, config, activeConversationId, clock>>

\* actionSettled that writes to the conversation shown when the call returns.
actionSettled_shownConversation(a, slot, ok, modelMessage, errorTpl, errorMessage) ==
  /\ conversations' =
       updateActiveConversation(conversations, activeConversationId,
         LAMBDA conv :
           IF ok THEN [conv EXCEPT !.messages = Append(slot.updatedMessages, modelMessage)]
           ELSE errorUpdater(conv, slot.updatedMessages, errorTpl, errorMessage))
  /\ error' = IF ok THEN error ELSE Some(errorMessage)
  /\ isLoading' = FALSE
  /\ act' = [act EXCEPT ![a] =
       [slot EXCEPT !.pc = IF ok THEN "Resolved" ELSE "Failed",
                    !.errorMessage = IF ok THEN <<>> ELSE errorMessage]]
  /\ UNCHANGED <<files, config, activeConversationId, clock>>

\* Such a handler after its service call has settled: the reply is appended
\* to the snapshot of the history, or the failure entry, then finally.
actionSettled(a, slot, ok, modelMessage, errorTpl, errorMessage) ==
  /\ conversations' =
       updateActiveConversation(conversations, slot.convId,
         LAMBDA conv :
           IF ok THEN [conv EXCEPT !.messages = Append(slot.updatedMessages, modelMessage)]
           ELSE errorUpdater(conv, slot.updatedMessages, errorTpl, errorMessage))
  /\ error' = IF ok THEN error ELSE Some(errorMessage)
  /\ isLoading' = FALSE
  /\ act' = [act EXCEPT ![a] =
       [slot EXCEPT !.pc = IF ok THEN "Resolved" ELSE "Failed",
                    !.errorMessage = IF ok THEN <<>> ELSE errorMessage]]
  /\ UNCHANGED <<files, config, activeConversationId, clock>>

\* ChatPanel.handleImageGenerationClick and handleGenerateImage up to the
\* generateImage call.
handleGenerateImage(limit, prompts) ==
  \E prompt \in prompts :
    /\ CanStart(limit)
    /\ Trim(prompt) # <<>>
    /\ LET slot == NewAction("generateImage", activeConversation[1], prompt, <<>>)
       IN  startAction(Len(act) + 1, slot,
             Message("user", "Generate an image of: \"${prompt}\"", <<>>, prompt, <<>>),
             "ImageCall", "Imagen")

\* The generateImage call settles.
ImageReturn(outcomes) ==
  \E a \in 1..Len(act), o \in outcomes :
    LET slot == act[a]
        r == generateImage(o)
        settled == [slot EXCEPT !.calls = Settle(slot.calls, IF r.ok THEN "ok" ELSE "fail")]
    IN  /\ slot.pc = "ImageCall"
        /\ actionSettled(a, settled, r.ok,
             Message("model", "Here is the image you requested:", <<>>, <<>>, r.image),
             "Sorry, something went wrong while generating the image: ${errorMessage}",
             r.msg)

\* ChatPanel.handleImageEditClick: the file and the edit prompt are chosen and
\* the conversion of the file awaited.
handleImageEditClick(limit, prompts) ==
  \E prompt \in prompts :
    /\ CanStart(limit)
    /\ Trim(prompt) # <<>>
    /\ act' = Append(act, [NewAction("editImage", activeConversation[1], prompt,
                                     EncodedImages(1)) EXCEPT !.pc = "Converting"])
    /\ UNCHANGED <<files, config, conversations, activeConversationId, isLoading, error, clock>>

\* The conversion for an edit settles: handleEditImage runs up to the
\* editImage call, or the user is alerted.
EditConverted ==
  \E a \in 1..Len(act), ok \in BOOLEAN :
    LET slot == act[a]
    IN  /\ slot.kind = "editImage"
        /\ slot.pc = "Converting"
        /\ IF ok
           THEN startAction(a, slot,
                  Message("user", "Edit Request: \"${prompt}\"", <<>>, slot.prompt,
                          DataUrls(slot.images)),
                  "EditCall", "GeminiEdit")
           ELSE /\ act' = [act EXCEPT ![a].pc = "Aborted"]
                /\ UNCHANGED <<files, config, conversations, activeConversationId,
                               isLoading, error, clock>>

\* The editImage call settles.
EditReturn(outcomes) ==
  \E a \in 1..Len(act), o \in outcomes :
    LET slot == act[a]
        r == editImage(o)
        settled == [slot EXCEPT !.calls = Settle(slot.calls, IF r.ok THEN "ok" ELSE "fail")]
    IN  /\ slot.pc = "EditCall"
        /\ actionSettled(a, settled, r.ok,
             Message("model", "${text}",
                     <<Coalesce(r.text, "Here is the edited image:")>>, <<>>, r.imageBase64),
             "Sorry, something went wrong while editing the image: ${errorMessage}",
             r.msg)

\* ChatPanel.handleOcrClick: the files are chosen and their conversion awaited.
handleOcrClick(limit, maxImages) ==
  \E n \in 1..maxImages :
    /\ CanStart(limit)
    /\ act' = Append(act, [NewAction("ocr", activeConversation[1], <<>>,
                                     EncodedImages(n)) EXCEPT !.pc = "Converting"])
    /\ UNCHANGED <<files, config, conversations, activeConversationId, isLoading, error, clock>>

\* The conversion for an OCR job settles: handlePerformOcr runs up to the
\* preprocessing tasks of performOcr, or the user is alerted.
OcrConverted ==
  \E a \in 1..Len(act), ok \in BOOLEAN :
    LET slot == act[a]
    IN  /\ slot.kind = "ocr"
        /\ slot.pc = "Converting"
        /\ IF ok /\ Len(slot.images) # 0
           THEN /\ startAction(a, slot,
                     Message("user",
                             "Please extract and organize the text from these ${images.length} images.",
                             <<ToString(Len(slot.images))>>, <<>>, DataUrls(slot.images)),
                     "OcrPreprocess", "Preprocess")
           ELSE /\ act' = [act EXCEPT ![a].pc = "Aborted"]
                /\ UNCHANGED <<files, config, conversations, activeConversationId,
                               isLoading, error, clock>>

\* All preprocessing tasks of performOcr have settled, those of the images in
\* failed by rejecting: the Extract call is issued with the processed images.
OcrPreprocessed ==
  \E a \in 1..Len(act) :
    \E failed \in SUBSET (1..Len(act[a].images)) :
      LET slot == act[a]
          processedImages ==
            [i \in 1..Len(slot.images) |-> preprocessImage(slot.images[i], i \notin failed)]
      IN  /\ slot.pc = "OcrPreprocess"
          /\ act' = [act EXCEPT ![a] =
               [slot EXCEPT !.pc = "OcrExtractCall",
                            !.preprocessFailed = failed,
                            !.processedImages = processedImages,
                            !.submitted = extractParts(processedImages),
                            !.calls = <<Attempt("GeminiExtract", "pending")>>]]
          /\ UNCHANGED <<files, config, conversations, activeConversationId,
                         isLoading, error, clock>>

\* handlePerformOcr after performOcr has settled.
ocrSettled(a, slot, ok, extractedText, errorMessage) ==
  actionSettled(a, [slot EXCEPT !.extractedText = IF ok THEN Some(extractedText) ELSE None],
    ok,
    Message("model", "Here is the extracted and organized text:\n\n---\n\n${extractedText}",
            <<extractedText.lit>>, extractedText.chars, <<>>),
    "Sorry, something went wrong while performing OCR: ${errorMessage}",
    errorMessage)

\* The Extract call of performOcr settles.
OcrExtractReturn(outcomes) ==
  \E a \in 1..Len(act), o \in outcomes :
    LET slot == act[a]
        r == performOcrExtracted(o)
        settled == [slot EXCEPT !.extract = Some(o),
                                !.calls =
                      Settle(slot.calls, IF o.thrown THEN "throw"
                                         ELSE IF o.text = None THEN "empty" ELSE "ok")]
    IN  /\ slot.pc = "OcrExtractCall"
        /\ IF r.next = "organize"
           THEN /\ act' = [act EXCEPT ![a] =
                     [settled EXCEPT !.pc = "OcrOrganizeCall",
                                     !.trimmedText = r.text.chars,
                                     !.calls = Append(settled.calls,
                                                      Attempt("GeminiOrganize", "pending"))]]
                /\ UNCHANGED <<files, config, conversations, activeConversationId,
                               isLoading, error, clock>>
           ELSE ocrSettled(a, settled, r.next = "return", r.text, r.msg)

\* The Organize call of performOcr settles.
OcrOrganizeReturn(outcomes) ==
  \E a \in 1..Len(act), o \in outcomes :
    LET slot == act[a]
        organizedText == organizeExtractedContent(slot.trimmedText, o)
        settled == [slot EXCEPT !.organizedText = organizedText,
                                !.organize = Some(o),
                                !.calls = Settle(slot.calls,
                                                 IF o.thrown THEN "throw"
                                                 ELSE IF o.text = None THEN "empty" ELSE "ok")]
    IN  /\ slot.pc = "OcrOrganizeCall"
        /\ ocrSettled(a, settled, TRUE,
                      OcrText("", performOcrOrganized(slot.trimmedText, organizedText)), <<>>)

\* The millisecond clock advances.
Tick ==
  /\ clock < MaxClock
  /\ clock' = clock + 1
  /\ UNCHANGED <<files, config, conversations, activeConversationId, isLoading, error, act>>

\* handleNewChat: a new conversation named after the clock is put in front
\* and shown.
handleNewChat ==
  /\ Len(conversations) < MaxConversations
  /\ conversations' = <<createNewConversation(clock, NewChatTitle)>> \o conversations
  /\ activeConversationId' = clock
  /\ UNCHANGED <<files, config, isLoading, error, clock, act>>

\* handleSelectConversation(id), from the sidebar's list.
handleSelectConversation ==
  \E i \in 1..Len(conversations) :
    /\ activeConversationId' = conversations[i].id
    /\ activeConversationId' # activeConversationId
    /\ UNCHANGED <<files, config, conversations, isLoading, error, clock, act>>

\* handleClearConversation
handleClearConversation ==
  /\ activeConversation # None
  /\ conversations' =
       updateActiveConversation(conversations, activeConversationId,
         LAMBDA conv : [conv EXCEPT !.messages = <<defaultWelcomeMessage>>,
                                    !.artifactContent = defaultArtifactContent,
                                    !.isArtifactVisible = FALSE])
  /\ UNCHANGED <<files, config, activeConversationId, isLoading, error, clock, act>>

\* The title the user types when renaming: "Mine".
RenameTitles == {<<77, 105, 110, 101>>}

\* Sidebar.handleRenameConfirm and handleRenameConversation(id, newTitle).
handleRenameConversation ==
  \E i \in 1..Len(conversations), tempTitle \in RenameTitles :
    /\ Trim(tempTitle) # <<>>
    /\ conversations' =
         [j \in 1..Len(conversations) |->
            IF conversations[j].id = conversations[i].id
            THEN [conversations[j] EXCEPT !.title = Trim(tempTitle)]
            ELSE conversations[j]]
    /\ UNCHANGED <<files, config, activeConversationId, isLoading, error, clock, act>>

\* handleToggleArtifactPanel
handleToggleArtifactPanel ==
  /\ activeConversation # None
  /\ conversations' =
       updateActiveConversation(conversations, activeConversationId,
         LAMBDA conv : [conv EXCEPT !.isArtifactVisible = ~conv.isArtifactVisible])
  /\ UNCHANGED <<files, config, activeConversationId, isLoading, error, clock, act>>

\* ----------------------------------------------------------- specifications

\* One send-message turn at a time, with every outcome of every provider call.
Next ==
  \/ handleSend(MaxActions, Prompts)
  \/ SendConverted
  \/ TitleReturn(TitleOutcomes)
  \/ ReasoningReturn(HttpOutcomes)
  \/ ArtifactReturn(GeminiOutcomes)
  \/ GeminiReturn(GeminiOutcomes)

Spec == Init /\ [][Next]_vars

\* One OCR job at a time, of up to MaxImages images, with every subset of
\* failing preprocessing tasks and every outcome of the Extract and Organize
\* calls.
OcrNext ==
  \/ handleOcrClick(MaxActions, MaxImages)
  \/ OcrConverted
  \/ OcrPreprocessed
  \/ OcrExtractReturn(ExtractOutcomes)
  \/ OcrOrganizeReturn(OrganizeOutcomes)

OcrSpec == Init /\ [][OcrNext]_vars

\* One user action, a send turn or an OCR job, with every outcome of its
\* provider calls.
PipelineNext ==
  \/ handleSend(MaxActions, Prompts)
  \/ SendConverted
  \/ TitleReturn(TitleOutcomes)
  \/ ReasoningReturn(HttpOutcomes)
  \/ ArtifactReturn(GeminiOutcomes)
  \/ GeminiReturn(GeminiOutcomes)
  \/ handleOcrClick(MaxActions, MaxImages)
  \/ OcrConverted
  \/ OcrPreprocessed
  \/ OcrExtractReturn(ExtractOutcomes)
  \/ OcrOrganizeReturn(OrganizeOutcomes)

PipelineSpec == Init /\ [][PipelineNext]_vars

\* The outcomes the runs of overlapping actions take the provider calls'
\* outcomes from: for each call a rejection, a reply the service rejects where
\* it can, and a reply it accepts.
AppTitleOutcomes == {t \in TitleOutcomes : t.thrown \/ t.text = Some(<<32, 70, 111, 114, 109, 32>>)}
AppHttpOutcomes == {"throw", "ok_nochoices", "ok_valid"}
AppGeminiOutcomes ==
  {g \in GeminiOutcomes :
     \/ g.thrown /\ g.msg = "xhr error"
     \/ g.hasText /\ ~g.startsBrace /\ ~g.endsBrace
     \/ g.parses /\ g.chatResponse # None /\ g.artifactContent = Some(ArtifactForm)}
AppEditOutcomes == {o \in EditOutcomes : o.thrown \/ (o.text = None) = (o.imageBase64 = None)}
AppExtractOutcomes ==
  {o \in ExtractOutcomes :
     \/ o.thrown
     \/ o.text = None /\ o.finishReason = Some("SAFETY")
     \/ o.text = Some(<<4640, 97>>)}
AppOrganizeOutcomes == {o \in OrganizeOutcomes : o.thrown \/ o.text = Some(<<4640, 98>>)}

\* One user action, a send or an image generation, while the user opens new
\* conversations and moves between the conversations of the list.
NavNext ==
  \/ handleSend(MaxActions, {PromptCode})
  \/ SendConverted
  \/ TitleReturn(AppTitleOutcomes)
  \/ ReasoningReturn(AppHttpOutcomes)
  \/ ArtifactReturn(AppGeminiOutcomes)
  \/ GeminiReturn(AppGeminiOutcomes)
  \/ handleGenerateImage(MaxActions, {PromptHi})
  \/ ImageReturn(ImageOutcomes)
  \/ Tick
  \/ handleNewChat
  \/ handleSelectConversation

NavSpec == Init /\ [][NavNext]_vars

\* One send while the user clears the conversation shown.
ClearNext ==
  \/ handleSend(MaxActions, {PromptCode})
  \/ SendConverted
  \/ TitleReturn(AppTitleOutcomes)
  \/ ReasoningReturn(AppHttpOutcomes)
  \/ ArtifactReturn(AppGeminiOutcomes)
  \/ GeminiReturn(AppGeminiOutcomes)
  \/ handleClearConversation

ClearSpec == Init /\ [][ClearNext]_vars

\* One send while the user renames conversations in the sidebar.
RenameNext ==
  \/ handleSend(MaxActions, {PromptCode})
  \/ SendConverted
  \/ TitleReturn(AppTitleOutcomes)
  \/ ReasoningReturn(AppHttpOutcomes)
  \/ ArtifactReturn(AppGeminiOutcomes)
  \/ GeminiReturn(AppGeminiOutcomes)
  \/ handleRenameConversation

RenameSpec == Init /\ [][RenameNext]_vars

\* One user action, a send with every reply of the multimodal client, an
\* image generation or an OCR job, while the user opens and closes the
\* artifact panel.
PanelNext ==
  \/ handleSend(MaxActions, {PromptCode})
  \/ SendConverted
  \/ TitleReturn(AppTitleOutcomes)
  \/ ReasoningReturn(AppHttpOutcomes)
  \/ ArtifactReturn(GeminiOutcomes)
  \/ GeminiReturn(GeminiOutcomes)
  \/ handleGenerateImage(MaxActions, {PromptHi})
  \/ ImageReturn(ImageOutcomes)
  \/ handleOcrClick(MaxActions, 1)
  \/ OcrConverted
  \/ OcrPreprocessed
  \/ OcrExtractReturn(AppExtractOutcomes)
  \/ OcrOrganizeReturn(AppOrganizeOutcomes)
  \/ handleToggleArtifactPanel

PanelSpec == Init /\ [][PanelNext]_vars

\* The four user actions, up to MaxConcurrent of them in one run, two of them
\* under way together when the later one starts while the earlier one still
\* converts its files.
AppNext ==
  \/ handleSend(MaxConcurrent, {PromptHi, PromptCode})
  \/ SendConverted
  \/ TitleReturn(AppTitleOutcomes)
  \/ ReasoningReturn(AppHttpOutcomes)
  \/ ArtifactReturn(AppGeminiOutcomes)
  \/ GeminiReturn(AppGeminiOutcomes)
  \/ handleGenerateImage(MaxConcurrent, {PromptHi})
  \/ ImageReturn(ImageOutcomes)
  \/ handleImageEditClick(MaxConcurrent, {PromptHi})
  \/ EditConverted
  \/ EditReturn(AppEditOutcomes)
  \/ handleOcrClick(MaxConcurrent, 1)
  \/ OcrConverted
  \/ OcrPreprocessed
  \/ OcrExtractReturn(AppExtractOutcomes)
  \/ OcrOrganizeReturn(AppOrganizeOutcomes)

AppSpec == Init /\ [][AppNext]_vars

\* A call some handler awaits settles.
AppSettle ==
  \/ SendConverted
  \/ TitleReturn(AppTitleOutcomes)
  \/ ReasoningReturn(AppHttpOutcomes)
  \/ ArtifactReturn(AppGeminiOutcomes)
  \/ GeminiReturn(AppGeminiOutcomes)
  \/ ImageReturn(ImageOutcomes)
  \/ EditConverted
  \/ EditReturn(AppEditOutcomes)
  \/ OcrConverted
  \/ OcrPreprocessed
  \/ OcrExtractReturn(AppExtractOutcomes)
  \/ OcrOrganizeReturn(AppOrganizeOutcomes)

\* While a handler awaits a call, some awaited call settles: the provider
\* calls complete or fail, and the browser finishes the file conversions and
\* the preprocessing.
AppFairness == WF_vars(AppSettle)

AppFairSpec == AppSpec /\ AppFairness

\* --------------------------------------------------------------- properties

\* The send turns of the run, and those that went through generateMixedResponse.
Turns == {a \in 1..Len(act) : act[a].kind = "send"}
MixedTurns == {a \in Turns : config.generate = "generateMixedResponse"}

\* The turn has called generate, and generate has settled.
Generating(a) == Len(act[a].calls) > 0
Settled(a) == act[a].pc \in {"Resolved", "Failed"}

\* The positions of the calls of turn a made to provider p.
CallsTo(a, p) == {i \in 1..Len(act[a].calls) : act[a].calls[i].provider = p}

\* The reasoning providers with a key.
Configured ==
  {p \in {"DeepSeek", "OpenRouter"} :
     IF p = "DeepSeek" THEN config.DEEPSEEK_API_KEY ELSE config.OPENROUTER_API_KEY}

\* The conversations the updates of turn a apply to.
ConversationsOf(a) == {i \in 1..Len(conversations) : conversations[i].id = act[a].convId}

\* Turn a settles in this step.
Settles(a) == a \in 1..Len(act) /\ ~Settled(a) /\ act'[a].pc \in {"Resolved", "Failed"}

\* C1: a request with at least one image that goes through
\* generateMixedResponse calls the multimodal client exactly once and no
\* reasoning provider, whether that call succeeds or fails: the log of the
\* turn's provider calls is one call to Gemini, also once the turn has failed.
C1_RoutingExclusivity ==
  \A a \in MixedTurns :
    (Len(act[a].images) >= 1 /\ Generating(a)) =>
       /\ Len(act[a].calls) = 1
       /\ act[a].calls[1].provider = "Gemini"

\* C1 witness: an image-bearing turn whose only call, to Gemini, failed and
\* that ended failed with no other provider tried.
C1_Witness ==
  \E a \in MixedTurns :
    /\ Len(act[a].images) >= 1
    /\ act[a].pc = "Failed"
    /\ act[a].calls = <<Attempt("Gemini", "throw")>>

\* C2: a text-only request with DeepSeek and OpenRouter both configured calls
\* DeepSeek first and exactly once; when that call raises or answers with a
\* non-success status the next call is to OpenRouter, and OpenRouter is never
\* called before DeepSeek; when OpenRouter then succeeds the turn resolves
\* with OpenRouter's output as its chat text.
C2_FallbackOrdering ==
  \A a \in MixedTurns :
    (Len(act[a].images) = 0 /\ Generating(a) /\ Configured = {"DeepSeek", "OpenRouter"}) =>
       LET calls == act[a].calls
       IN  /\ CallsTo(a, "DeepSeek") = {1}
           /\ CallsTo(a, "OpenRouter") \subseteq {2}
           /\ calls[1].outcome \in {"throw", "notok"} =>
                Len(calls) >= 2 /\ calls[2].provider = "OpenRouter"
           /\ (Len(calls) >= 2 /\ calls[2] = Attempt("OpenRouter", "ok_valid") /\ Settled(a)) =>
                /\ act[a].pc = "Resolved"
                /\ act[a].result # None
                /\ act[a].result[1].chatResponse = ReasoningText("OpenRouter")

\* C2 witness: DeepSeek answered with a non-success status, OpenRouter
\* succeeded after it, and the turn resolved with OpenRouter's text.
C2_Witness ==
  \E a \in MixedTurns :
    /\ Len(act[a].images) = 0
    /\ Len(act[a].calls) >= 2
    /\ act[a].calls[1] = Attempt("DeepSeek", "notok")
    /\ act[a].calls[2] = Attempt("OpenRouter", "ok_valid")
    /\ act[a].pc = "Resolved"
    /\ act[a].result[1].chatResponse = ReasoningText("OpenRouter")

\* DeepSeek and OpenRouter were both called in turn a and both failed.
BothFailed(slot) ==
  /\ Len(slot.calls) >= 2
  /\ slot.calls[1].provider = "DeepSeek"
  /\ slot.calls[1].outcome \in HttpOutcomes \ {"ok_valid"}
  /\ slot.calls[2].provider = "OpenRouter"
  /\ slot.calls[2].outcome \in HttpOutcomes \ {"ok_valid"}

\* C3: when both reasoning providers fail for a text-only request the turn
\* ends failed: an error is raised and no result returned, the multimodal
\* client is not called, and the step that settles the turn leaves its
\* conversation with the history up to the user's message plus exactly one
\* new model-role entry, which carries the failure.
C3_AllReasoningFail ==
  [][\A a \in 1..Len(act') :
       (act'[a].kind = "send" /\ Len(act'[a].images) = 0 /\ BothFailed(act'[a])) =>
          /\ act'[a].pc = "Failed"
          /\ act'[a].result = None
          /\ act'[a].errorMessage # <<>>
          /\ \A i \in 1..Len(act'[a].calls) : act'[a].calls[i].provider # "Gemini"
          /\ Settles(a) =>
               /\ ConversationsOf(a) # {}
               /\ \A i \in ConversationsOf(a) :
                    LET before == act'[a].updatedMessages
                        after == conversations'[i].messages
                    IN  /\ Len(after) = Len(before) + 1
                        /\ SubSeq(after, 1, Len(before)) = before
                        /\ after[Len(after)].role = "model"
                        /\ after[Len(after)].tpl = "Sorry, something went wrong: ${errorMessage}"
                        /\ after[Len(after)].args = act'[a].errorMessage]_vars

\* C3 witness: DeepSeek raised, OpenRouter answered with a non-success
\* status, the turn failed and its conversation ends with the failure entry.
C3_Witness ==
  \E a \in MixedTurns :
    /\ act[a].calls = <<Attempt("DeepSeek", "throw"), Attempt("OpenRouter", "notok")>>
    /\ act[a].pc = "Failed"
    /\ \E i \in ConversationsOf(a) :
         LET m == conversations[i].messages
         IN  m[Len(m)].role = "model" /\ m[Len(m)].args = act[a].errorMessage

\* The outcomes of a reasoning provider's fetch that are a reply with a
\* success status and an unusable body.
UnusableBody == {"ok_nochoices", "ok_badjson"}

\* The statement C4 makes, as an invariant: a failed text-only turn has
\* called every configured reasoning provider.
C4_FailsOnlyAfterAllAttempted ==
  \A a \in MixedTurns :
    (Len(act[a].images) = 0 /\ act[a].pc = "Failed") =>
       \A p \in Configured : CallsTo(a, p) # {}

\* C4: a text-only turn fails only after every configured reasoning provider
\* was called and failed, or after the provider called last answered with a
\* success status and an unusable body; in that second case a provider after
\* it is not called. The multimodal client is not called in a failed
\* text-only turn.
C4_FailsAfterAllOrUnusableBody ==
  \A a \in MixedTurns :
    (Len(act[a].images) = 0 /\ act[a].pc = "Failed") =>
       LET calls == act[a].calls
       IN  /\ CallsTo(a, "Gemini") = {}
           /\ \A i \in 1..Len(calls) : calls[i].outcome \in HttpOutcomes \ {"ok_valid"}
           /\ \/ calls[Len(calls)].outcome \in UnusableBody
              \/ \A p \in Configured : CallsTo(a, p) # {}

\* C4 witness: DeepSeek answered with a success status and no choices, the
\* turn failed, and OpenRouter, though configured, was never called.
C4_Witness ==
  \E a \in MixedTurns :
    /\ "OpenRouter" \in Configured
    /\ act[a].pc = "Failed"
    /\ act[a].calls = <<Attempt("DeepSeek", "ok_nochoices")>>

\* The secondary generateResponse call of turn a has settled with g.
SecondaryCall(a) ==
  /\ Len(act[a].images) = 0
  /\ Len(act[a].calls) >= 2
  /\ act[a].calls[Len(act[a].calls)].provider = "Gemini"
  /\ act[a].gemini # None

\* The provider whose reply is the reasoning text of turn a.
ReasoningProvider(a) == act[a].calls[Len(act[a].calls) - 1].provider

\* C5: for a text-only request whose prompt holds an artifact keyword, when a
\* reasoning provider succeeded with chat text T and the secondary
\* generateResponse call succeeded with artifact X, the result of the turn is
\* exactly chatResponse = T and artifactContent = X; the chat text of the
\* secondary call is not used.
C5_MergeResult ==
  \A a \in MixedTurns :
    (/\ SecondaryCall(a)
     /\ NeedsArtifact(act[a].prompt)
     /\ Settled(a)
     /\ generateResponse(act[a].gemini[1], act[a].conv.artifactContent).ok) =>
       /\ act[a].pc = "Resolved"
       /\ act[a].result =
            Some([chatResponse |-> ReasoningText(ReasoningProvider(a)),
                  artifactContent |->
                    generateResponse(act[a].gemini[1], act[a].conv.artifactContent).artifactContent])

\* C5 witness: OpenRouter's text merged with the artifact the secondary call
\* returned, whose own chat text differs.
C5_Witness ==
  \E a \in MixedTurns :
    /\ SecondaryCall(a)
    /\ act[a].pc = "Resolved"
    /\ act[a].gemini[1].parses
    /\ act[a].gemini[1].artifactContent = Some(ArtifactForm)
    /\ act[a].result = Some([chatResponse |-> ReasoningText("OpenRouter"),
                             artifactContent |-> ArtifactForm])

\* Every conversation keeps its artifact in this step.
ArtifactsUnchanged ==
  /\ Len(conversations') = Len(conversations)
  /\ \A i \in 1..Len(conversations) :
       conversations'[i].artifactContent = conversations[i].artifactContent

\* C6: when the reasoning call of a text-only request succeeded and the
\* secondary call for the artifact fails, the turn does not fail: it resolves
\* with the reasoning provider's chat text, that text is the reply the
\* conversation gains, and the step leaves the conversation's artifact as it
\* was.
C6_SecondaryFailureDegrades ==
  [][\A a \in 1..Len(act) :
       (/\ Settles(a)
        /\ act[a].kind = "send"
        /\ act[a].pc = "ArtifactCall"
        /\ ~generateResponse(act'[a].gemini[1], act[a].conv.artifactContent).ok) =>
          /\ act'[a].pc = "Resolved"
          /\ act'[a].result[1].chatResponse = act[a].chatResponse
          /\ act[a].chatResponse = ReasoningText(act[a].calls[Len(act[a].calls) - 1].provider)
          /\ \A i \in ConversationsOf(a) :
               LET after == conversations'[i].messages
               IN  /\ after[Len(after)].role = "model"
                   /\ after[Len(after)].args = <<act[a].chatResponse>>
          /\ ArtifactsUnchanged]_vars

\* C6 witness: the secondary call answered with text that is no JSON object;
\* the turn resolved with DeepSeek's text and the saved conversation still
\* holds its artifact.
C6_Witness ==
  \E a \in MixedTurns :
    /\ SecondaryCall(a)
    /\ act[a].calls[Len(act[a].calls)].outcome = "nonjson"
    /\ act[a].pc = "Resolved"
    /\ act[a].result[1].chatResponse = ReasoningText("DeepSeek")
    /\ \E i \in ConversationsOf(a) : conversations[i].artifactContent = ArtifactForm

\* A send turn takes a step: it starts, or it moves on.
TurnStep(a) ==
  /\ a \in 1..Len(act')
  /\ act'[a].kind = "send"
  /\ a \in 1..Len(act) => act'[a] # act[a]

\* Turn a settles in this step with a result whose artifact is not blank.
SettlesWithArtifact(a) ==
  /\ Settles(a)
  /\ act'[a].result # None
  /\ Trim(act'[a].result[1].artifactContent) # <<>>

\* C7: a send turn whose result has an empty or whitespace-only artifact, and
\* a send turn that fails, leave the conversation's artifact as it was before
\* the turn: only the step that settles a turn with a non-blank result
\* artifact changes an artifact.
C7_ArtifactPreserved ==
  [][\A a \in 1..Len(act') :
       (TurnStep(a) /\ ~SettlesWithArtifact(a)) => ArtifactsUnchanged]_vars

\* C7 witness: a turn resolved with a whitespace-only artifact and the saved
\* conversation still holds the artifact it had.
C7_Witness ==
  \E a \in Turns :
    /\ act[a].pc = "Resolved"
    /\ act[a].result[1].artifactContent = ArtifactBlank
    /\ act[a].conv.artifactContent = ArtifactForm
    /\ \E i \in ConversationsOf(a) : conversations[i].artifactContent = ArtifactForm

\* The reply turn a resolved with came from a reasoning provider alone: no
\* generateResponse call succeeded in the turn.
ReasoningOnly(a) ==
  /\ CallsTo(a, "DeepSeek") \cup CallsTo(a, "OpenRouter") # {}
  /\ \/ act[a].gemini = None
     \/ ~generateResponse(act[a].gemini[1], act[a].conv.artifactContent).ok

\* The multimodal reply of turn a is a JSON object whose artifact field is v
\* (None: the field is missing).
GeminiArtifactField(a, v) ==
  /\ act[a].gemini # None
  /\ act[a].gemini[1].parses
  /\ act[a].gemini[1].artifactContent = v

\* The statement C8 makes, as an invariant: whenever the provider's artifact
\* is empty or missing, a reasoning-only reply included, the result's
\* artifactContent is the request's previousArtifact and is not empty.
C8_ResultArtifactIsPrevious ==
  \A a \in Turns :
    (/\ act[a].pc = "Resolved"
     /\ \/ ReasoningOnly(a)
        \/ GeminiArtifactField(a, None)
        \/ GeminiArtifactField(a, Some(<<>>))) =>
       /\ act[a].result[1].artifactContent = act[a].conv.artifactContent
       /\ act[a].result[1].artifactContent # <<>>

\* C8: when the multimodal reply lacks the artifact field, the result's
\* artifactContent is the request's previousArtifact, which is not empty;
\* when the field is present and empty, and for every reasoning-only reply,
\* the result's artifactContent is the empty string.
C8_ResultArtifactMissingOrEmpty ==
  \A a \in Turns :
    act[a].pc = "Resolved" =>
       /\ GeminiArtifactField(a, None) =>
            /\ act[a].result[1].artifactContent = act[a].conv.artifactContent
            /\ act[a].result[1].artifactContent # <<>>
       /\ GeminiArtifactField(a, Some(<<>>)) => act[a].result[1].artifactContent = <<>>
       /\ ReasoningOnly(a) => act[a].result[1].artifactContent = <<>>

\* C8 witness: a reply of the multimodal client without the artifact field
\* resolved a turn of the saved conversation with that conversation's
\* artifact as the result's.
C8_Witness ==
  \E a \in Turns :
    /\ act[a].pc = "Resolved"
    /\ GeminiArtifactField(a, None)
    /\ act[a].conv.artifactContent = ArtifactForm
    /\ act[a].result[1].artifactContent = ArtifactForm

\* The outcomes of a provider call that are a reply of the wrong shape or
\* with no content: no choices or a body that is no JSON for a reasoning
\* provider; no text (a blocked reply), text that is no JSON object, or JSON
\* that does not parse for the multimodal client.
Malformed == {"ok_nochoices", "ok_badjson", "empty", "nonjson", "parsefail"}

\* Call i of turn a is the secondary generateResponse call of
\* generateMixedResponse.
IsSecondary(a, i) ==
  /\ Len(act[a].images) = 0
  /\ i > 1
  /\ act[a].calls[i].provider = "Gemini"

\* The statement C9 makes, as an invariant: a malformed or blocked reply is
\* the last call of its turn and the turn has failed with it.
C9_MalformedFailsTurn ==
  \A a \in Turns : \A i \in 1..Len(act[a].calls) :
    act[a].calls[i].outcome \in Malformed =>
       /\ i = Len(act[a].calls)
       /\ act[a].pc = "Failed"
       /\ act[a].result = None

\* C9: a malformed or blocked reply is never followed by another provider
\* call in its turn. From a reasoning provider or from the turn's primary
\* generateResponse call it fails the turn at once with its error; from the
\* secondary generateResponse call it is swallowed and the turn resolves with
\* the reasoning provider's text.
C9_MalformedEndsCalls ==
  \A a \in Turns : \A i \in 1..Len(act[a].calls) :
    act[a].calls[i].outcome \in Malformed =>
       /\ i = Len(act[a].calls)
       /\ IF IsSecondary(a, i)
          THEN /\ act[a].pc = "Resolved"
               /\ act[a].result[1].chatResponse = ReasoningText(act[a].calls[i - 1].provider)
          ELSE /\ act[a].pc = "Failed"
               /\ act[a].result = None
               /\ act[a].errorMessage # <<>>

\* C9 witness: OpenRouter, called after DeepSeek raised, answered with a body
\* that is no JSON, and the turn failed there.
C9_Witness ==
  \E a \in MixedTurns :
    /\ act[a].calls = <<Attempt("DeepSeek", "throw"), Attempt("OpenRouter", "ok_badjson")>>
    /\ act[a].pc = "Failed"
    /\ error = Some(act[a].errorMessage)

\* The handler of user action a has started and awaits one of its calls.
Started(a) ==
  /\ a \in 1..Len(act)
  /\ act[a].pc \notin {"Start", "Converting", "Aborted", "Resolved", "Failed"}

\* User action a has its merged outcome: the handler has ended through its
\* try or its catch block, the conversation the action was issued for holds
\* the history up to the action's user message and exactly one model-role
\* entry after it, which for a failed action carries the error message, and
\* the busy flag is down.
Merged(a) ==
  /\ a \in 1..Len(act)
  /\ Settled(a)
  /\ ~isLoading
  /\ act[a].pc = "Failed" => act[a].errorMessage # <<>> /\ error = Some(act[a].errorMessage)
  /\ \E i \in ConversationsOf(a) :
       LET before == act[a].updatedMessages
           after == conversations[i].messages
       IN  /\ Len(after) = Len(before) + 1
           /\ SubSeq(after, 1, Len(before)) = before
           /\ before[Len(before)].role = "user"
           /\ after[Len(after)].role = "model"
           /\ act[a].pc = "Failed" => after[Len(after)].args = act[a].errorMessage

\* C10: for each of the four user actions (send message, generate image, edit
\* image, OCR), once its handler has started and the calls it awaits complete
\* or fail, the action eventually has its merged outcome: its conversation
\* holds exactly one new model-role entry for it (the reply, or a text with
\* the error message), the error was caught by the handler, and isLoading is
\* false.
C10_NoSilentUnresponsiveness ==
  \A a \in 1..MaxConcurrent : Started(a) ~> Merged(a)

\* C10 witness: an OCR job whose Extract call was blocked ended failed, with
\* the failure entry in its conversation and the busy flag down.
C10_Witness ==
  \E a \in 1..Len(act) :
    /\ act[a].kind = "ocr"
    /\ act[a].pc = "Failed"
    /\ Merged(a)

\* C11: the provider calls of one turn are strictly sequential: at most one
\* call of a turn is in flight, it is the call issued last, and every call
\* before it has returned or failed; a settled turn has no call in flight.
C11_SequentialCalls ==
  \A a \in Turns :
    /\ \A i \in 1..Len(act[a].calls) :
         act[a].calls[i].outcome = "pending" =>
           i = Len(act[a].calls) /\ ~Settled(a)
    /\ act[a].pc \in {"DeepSeekCall", "OpenRouterCall", "ArtifactCall", "GeminiCall"} =>
         /\ Len(act[a].calls) >= 1
         /\ act[a].calls[Len(act[a].calls)].outcome = "pending"

\* C11 witness: the artifact call is in flight as the third call of a turn
\* whose DeepSeek and OpenRouter calls have both settled.
C11_Witness ==
  \E a \in MixedTurns :
    /\ Len(act[a].calls) = 3
    /\ act[a].calls[1] = Attempt("DeepSeek", "throw")
    /\ act[a].calls[2] = Attempt("OpenRouter", "ok_valid")
    /\ act[a].calls[3] = Attempt("Gemini", "pending")

\* The positions of a turn: Idle and Routing (the turn converts its files,
\* awaits its title, and picks its first provider), the provider calls, the
\* optional artifact call, and the terminal positions.
RoutingPcs == {"Start", "Converting", "TitleCall"}
CallPcs == {"DeepSeekCall", "OpenRouterCall", "GeminiCall"}
TerminalPcs == {"Resolved", "Failed"}

\* The moves of a turn from one position to the next.
TurnMoves ==
  ({"Start"} \X ({"Converting", "TitleCall"} \cup CallPcs))
    \cup ({"Converting"} \X ({"TitleCall", "Aborted"} \cup CallPcs))
    \cup ({"TitleCall"} \X CallPcs)
    \cup ({"DeepSeekCall"} \X ({"OpenRouterCall", "ArtifactCall"} \cup TerminalPcs))
    \cup ({"OpenRouterCall"} \X ({"ArtifactCall"} \cup TerminalPcs))
    \cup ({"GeminiCall"} \X TerminalPcs)
    \cup ({"ArtifactCall"} \X TerminalPcs)

\* C12: every turn goes from Idle through Routing, one or more provider
\* calls and an optional artifact call to Resolved or Failed, with no move
\* back; a Resolved turn has its chat text and a Failed turn its error; and
\* once a turn is Resolved or Failed nothing of it changes any more: no
\* further provider call, no new outcome.
C12_TurnStateMachine ==
  [][\A a \in 1..Len(act') :
       act'[a].kind = "send" =>
         /\ a \in 1..Len(act) =>
              /\ act[a].pc \in TerminalPcs \cup {"Aborted"} => act'[a] = act[a]
              /\ act'[a].pc # act[a].pc => <<act[a].pc, act'[a].pc>> \in TurnMoves
              /\ Len(act'[a].calls) >= Len(act[a].calls)
         /\ a \notin 1..Len(act) => <<"Start", act'[a].pc>> \in TurnMoves
         /\ act'[a].pc \in TerminalPcs => Len(act'[a].calls) >= 1
         /\ act'[a].pc = "Resolved" => act'[a].result # None
         /\ act'[a].pc = "Failed" => act'[a].result = None /\ act'[a].errorMessage # <<>>
         /\ act'[a].pc \notin TerminalPcs => act'[a].result = None]_vars

\* C12 witness: a turn that went through the DeepSeek call, the OpenRouter
\* call and the artifact call is Resolved.
C12_Witness ==
  \E a \in MixedTurns :
    /\ act[a].pc = "Resolved"
    /\ Len(act[a].calls) = 3
    /\ act[a].calls[3].provider = "Gemini"
    /\ act[a].result # None

\* The OCR jobs of the run, and those whose preprocessing tasks have settled.
OcrJobs == {a \in 1..Len(act) : act[a].kind = "ocr"}
Preprocessed(a) == act[a].pc \in {"OcrExtractCall", "OcrOrganizeCall", "Resolved", "Failed"}

\* The normalized form of an image: the enhanced PNG of the same file.
Normalized(image) ==
  [mimeType |-> "image/png", data |-> [file |-> image.data.file, enhanced |-> TRUE]]

\* C13: for every OCR job and every subset of its images whose preprocessing
\* fails, performOcr goes on to the Extract call; the images submitted to
\* Extract are, position by position in input order, the normalized form of
\* each image whose preprocessing succeeded and the original of each image
\* whose preprocessing failed; and the job fails only when the Extract call
\* itself rejects or is blocked or cut short, never because of preprocessing.
C13_OcrDegradeNotAbort ==
  \A a \in OcrJobs :
    Preprocessed(a) =>
      /\ Len(act[a].calls) >= 1
      /\ act[a].calls[1].provider = "GeminiExtract"
      /\ Len(act[a].submitted) = Len(act[a].images)
      /\ \A i \in 1..Len(act[a].images) :
           act[a].submitted[i].inlineData =
             IF i \in act[a].preprocessFailed THEN act[a].images[i]
             ELSE Normalized(act[a].images[i])
      /\ act[a].pc = "Failed" => act[a].calls[1].outcome \in {"throw", "empty"}
      /\ (act[a].calls[1].outcome = "ok" /\ act[a].pc \in {"Resolved", "Failed"}) =>
           act[a].pc = "Resolved" /\ act[a].extractedText # None

\* C13 witness: a job of three images whose second image failed
\* preprocessing ended with a result, Extract having received the normalized
\* first and third image and the original second.
C13_Witness ==
  \E a \in OcrJobs :
    /\ Len(act[a].images) = 3
    /\ act[a].preprocessFailed = {2}
    /\ act[a].pc = "Resolved"
    /\ act[a].submitted[1].inlineData = Normalized(act[a].images[1])
    /\ act[a].submitted[2].inlineData = act[a].images[2]
    /\ act[a].submitted[3].inlineData = Normalized(act[a].images[3])

\* The Extract call of job a has answered with no output text and the stop
\* reason f (None: no stop reason).
ExtractEmpty(a, f) ==
  /\ act[a].extract # None
  /\ ~act[a].extract[1].thrown
  /\ act[a].extract[1].text = None
  /\ act[a].extract[1].finishReason = f

\* C14: when the Extract call returns no output text, performOcr fails with
\* the content-blocked error if the stop reason is SAFETY, fails with the
\* incomplete-generation error naming the reason if the stop reason is any
\* other value than STOP, and otherwise (STOP, or no stop reason) does not
\* fail and returns the no-text sentence; in none of these cases is the
\* Organize call made or the correction applied.
C14_ExtractStopReason ==
  \A a \in OcrJobs : \A f \in {None} \cup {Some(x) : x \in {"SAFETY", "STOP", "MAX_TOKENS"}} :
    ExtractEmpty(a, f) =>
      /\ Len(act[a].calls) = 1
      /\ act[a].organize = None
      /\ act[a].organizedText = <<>>
      /\ IF f = Some("SAFETY")
         THEN /\ act[a].pc = "Failed"
              /\ act[a].errorMessage =
                   <<"The ", "OCR Operation", " failed: ",
                     "The OCR request was blocked due to safety settings. Please check the input images.">>
         ELSE IF f # None /\ f # Some("STOP")
         THEN /\ act[a].pc = "Failed"
              /\ act[a].errorMessage =
                   <<"The ", "OCR Operation", " failed: ",
                     "OCR failed. The model stopped for reason: ", f[1], ".">>
         ELSE /\ act[a].pc = "Resolved"
              /\ act[a].extractedText =
                   Some(OcrText("No text could be extracted from the provided image(s). They may be empty or unclear.", <<>>))

\* C14 witness: a job whose Extract call stopped at the token limit with no
\* text has failed with the incomplete-generation error.
C14_Witness ==
  \E a \in OcrJobs :
    /\ ExtractEmpty(a, Some("MAX_TOKENS"))
    /\ act[a].pc = "Failed"
    /\ Len(act[a].calls) = 1

\* The Organize call of job a has failed: it rejected, or it answered with no
\* text or with white space only.
OrganizeFailed(a) ==
  /\ act[a].organize # None
  /\ \/ act[a].organize[1].thrown
     \/ act[a].organize[1].text = None
     \/ Trim(act[a].organize[1].text[1]) = <<>>

\* C15: for every OCR job whose Extract call produced text, when the Organize
\* call fails in any way or answers with empty text, the job does not abort:
\* it resolves, and the text handed to the correction stage is the trimmed
\* transcription unchanged.
C15_OrganizeSkippable ==
  \A a \in OcrJobs :
    OrganizeFailed(a) =>
      /\ act[a].trimmedText # <<>>
      /\ act[a].organizedText = act[a].trimmedText
      /\ act[a].pc = "Resolved"
      /\ act[a].errorMessage = <<>>
      /\ act[a].extractedText # None
      /\ act[a].extractedText[1].chars \in
           {act[a].trimmedText, applyOfflineAmharicCorrections(act[a].trimmedText)}

\* C15 witness: the Organize call rejected and the job resolved with the
\* transcription "ab".
C15_Witness ==
  \E a \in OcrJobs :
    /\ act[a].organize # None
    /\ act[a].organize[1].thrown
    /\ act[a].pc = "Resolved"
    /\ act[a].trimmedText = <<97, 98>>
    /\ act[a].extractedText[1].chars = <<97, 98>>

\* C16: for every OCR job whose organized text holds no character of the
\* Ethiopic block U+1200..U+137F, the final OCR result is the organized text
\* exactly: the correction stage changes nothing.
C16_CorrectionGating ==
  \A a \in OcrJobs :
    (act[a].organize # None /\ act[a].pc = "Resolved" /\ ~hasAmharic(act[a].organizedText)) =>
      act[a].extractedText = Some(OcrText("", act[a].organizedText))

\* C16 witness: the transcription held Ethiopic letters, so the corrections
\* ran, on an organized text that holds none, and the result is that text.
C16_Witness ==
  \E a \in OcrJobs :
    /\ act[a].pc = "Resolved"
    /\ hasAmharic(act[a].trimmedText)
    /\ act[a].organizedText = <<35, 32, 97, 98>>
    /\ act[a].extractedText = Some(OcrText("", <<35, 32, 97, 98>>))

\* The first five space-separated words of a prompt, joined by spaces.
FirstFiveWords(prompt) ==
  LET words == SplitSpace(prompt)
  IN  JoinSpace(SubSeq(words, 1, IF Len(words) < 5 THEN Len(words) ELSE 5))

\* The title call of turn a fails in this step.
TitleCallFails(a) ==
  /\ a \in 1..Len(act)
  /\ act[a].pc = "TitleCall"
  /\ act'[a].pc # "TitleCall"
  /\ act'[a].titleReply # None
  /\ act'[a].titleReply[1].thrown

ResultWritten(a, i) ==
  /\ Len(conversations[i].messages) = Len(act[a].updatedMessages) + 1
  /\ SubSeq(conversations[i].messages, 1, Len(act[a].updatedMessages)) = act[a].updatedMessages
  /\ conversations[i].messages[Len(conversations[i].messages)].role = "model"

Overlapped(a, b) ==
  /\ a # b
  /\ act[a].convId = act[b].convId
  /\ act[a].conv = act[b].conv

\* C19 as stated: after two overlapping actions on a conversation have both
\* resolved, its history holds the entries of the snapshot, the user entry
\* of each action and the reply or failure entry of each action; no entry is
\* dropped by the other action's merge.
C19_NoEntryDropped ==
  \A a, b \in 1..Len(act) :
    (Overlapped(a, b) /\ Settled(a) /\ Settled(b)) =>
      \A i \in ConversationsOf(a) :
        /\ Len(conversations[i].messages) = Len(act[a].conv.messages) + 4
        /\ \E k \in 1..Len(conversations[i].messages) :
             conversations[i].messages[k] = act[a].updatedMessages[Len(act[a].updatedMessages)]
        /\ \E k \in 1..Len(conversations[i].messages) :
             conversations[i].messages[k] = act[b].updatedMessages[Len(act[b].updatedMessages)]

\* Two overlapping actions have both resolved and the history holds the
\* snapshot, one user entry and one reply only.
C19_Witness ==
  \E a, b \in 1..Len(act) :
    /\ Overlapped(a, b) /\ Settled(a) /\ Settled(b)
    /\ \E i \in ConversationsOf(a) :
         Len(conversations[i].messages) = Len(act[a].conv.messages) + 2

\* ------------------------------------------------------------------ C20

\* The file each image part of a request carries, part by part.
FilesOf(parts) == [i \in 1..Len(parts) |-> parts[i].inlineData.data.file]

\* C20: an OCR job issues no Extract call before its preprocessing tasks have
\* settled and exactly one from then on, whatever the number n >= 1 of its
\* images; the request of that call carries n image parts, the i-th the i-th
\* image of the input; the request the second performOcr of the file builds
\* from the same input carries the n images unchanged in the same order.
C20_BatchedSubmission ==
  \A a \in OcrJobs :
    /\ ~Preprocessed(a) => CallsTo(a, "GeminiExtract") = {}
    /\ Preprocessed(a) =>
         /\ Cardinality(CallsTo(a, "GeminiExtract")) = 1
         /\ Len(act[a].images) >= 1
         /\ Len(act[a].submitted) = Len(act[a].images)
         /\ FilesOf(act[a].submitted) = [i \in 1..Len(act[a].images) |-> act[a].images[i].data.file]
         /\ performOcrParts(act[a].images) =
              [i \in 1..Len(act[a].images) |-> [inlineData |-> act[a].images[i]]]

\* C20 witness: a job of MaxImages images has resolved after one Extract call
\* that carried its images in order.
C20_Witness ==
  \E a \in OcrJobs :
    /\ act[a].pc = "Resolved"
    /\ Len(act[a].images) = MaxImages
    /\ Cardinality(CallsTo(a, "GeminiExtract")) = 1
    /\ FilesOf(act[a].submitted) = [i \in 1..MaxImages |-> i]

\* ------------------------------------------------------------ utils/file.ts

\* MAX_IMAGE_DIMENSION
MAX_IMAGE_DIMENSION == 1024

\* Math.round of the quotient num / den of two positive integers: halves
\* round up.
Round(num, den) == (2 * num + den) \div (2 * den)

\* The widths and heights of the chosen files, and their types.  A file whose
\* name ends in .tiff or .tif is handled as one of type image/tiff.
Dimensions == {1, 600, 1024, 1025, 2048, 3000}
FileTypes == {"image/jpeg", "image/png", "image/tiff"}

\* The files handed to fileToBase64 in a run.
MaxFiles == 1

\* What reading and decoding a TIFF can do: the reader fails, reads no buffer,
\* the decoder throws, gives no canvas, or gives a canvas.
TiffOutcomes == {"error", "nobuffer", "throw", "nocanvas", "canvas"}

Resolved(mimeType, width, height) ==
  [ok |-> TRUE, mimeType |-> mimeType, width |-> width, height |-> height, msg |-> ""]

Rejected(msg) == [ok |-> FALSE, mimeType |-> "", width |-> 0, height |-> 0, msg |-> msg]

\* processAndEncode(canvas, resolve, reject): a canvas with an edge over
\* MAX_IMAGE_DIMENSION is drawn on a resized canvas, unless that canvas gives
\* no 2D context (ctxOk false), in which case the original canvas is encoded;
\* toDataURL of a canvas with an edge of 0, or one that yields no data
\* (encodeOk false), leaves nothing after the comma and the promise rejects.
processAndEncode(width, height, ctxOk, encodeOk) ==
  LET resize == width > MAX_IMAGE_DIMENSION \/ height > MAX_IMAGE_DIMENSION
      newWidth == IF width > height THEN MAX_IMAGE_DIMENSION
                  ELSE Round(width * MAX_IMAGE_DIMENSION, height)
      newHeight == IF width > height THEN Round(height * MAX_IMAGE_DIMENSION, width)
                   ELSE MAX_IMAGE_DIMENSION
      finalWidth == IF resize /\ ctxOk THEN newWidth ELSE width
      finalHeight == IF resize /\ ctxOk THEN newHeight ELSE height
  IN  IF encodeOk /\ finalWidth > 0 /\ finalHeight > 0
      THEN Resolved("image/jpeg", finalWidth, finalHeight)
      ELSE Rejected("Could not parse the final image data URL.")

\* A file's record with the promise of fileToBase64 settled.
SettleFile(file, ctxOk, result) ==
  [file EXCEPT !.pc = IF result.ok THEN "Resolved" ELSE "Rejected",
               !.resizeCtx = ctxOk,
               !.result = Some(result)]

\* fileToBase64(file) up to its first callback: a TIFF is read into a
\* buffer, any other file is loaded into an Image.
fileToBase64 ==
  \E type \in FileTypes, width \in Dimensions, height \in Dimensions :
    /\ Len(files) < MaxFiles
    /\ files' = Append(files, [type |-> type, width |-> width, height |-> height,
                               pc |-> IF type = "image/tiff" THEN "ReadingBuffer"
                                      ELSE "LoadingImage",
                               resizeCtx |-> TRUE,
                               result |-> None])
    /\ UNCHANGED <<config, conversations, activeConversationId, isLoading, error, clock, act>>

\* img.onload / img.onerror: a JPEG within the limit is passed through a
\* FileReader, any other image is drawn on a canvas and encoded.
imgOnload ==
  \E f \in 1..Len(files), loaded \in BOOLEAN, canvasCtx \in BOOLEAN,
     ctxOk \in BOOLEAN, encodeOk \in BOOLEAN :
    LET file == files[f]
    IN  /\ file.pc = "LoadingImage"
        /\ files' = [files EXCEPT ![f] =
             IF ~loaded
             THEN SettleFile(file, TRUE, Rejected("Failed to load image for processing. The file might be corrupt or an unsupported format."))
             ELSE IF /\ file.width <= MAX_IMAGE_DIMENSION
                     /\ file.height <= MAX_IMAGE_DIMENSION
                     /\ file.type = "image/jpeg"
             THEN [file EXCEPT !.pc = "ReadingDataUrl"]
             ELSE IF ~canvasCtx
             THEN SettleFile(file, TRUE, Rejected("Could not get canvas context."))
             ELSE SettleFile(file, ctxOk,
                             processAndEncode(file.width, file.height, ctxOk, encodeOk))]
        /\ UNCHANGED <<config, conversations, activeConversationId, isLoading, error, clock, act>>

\* reader.onload / reader.onerror of the pass-through: the file's own bytes
\* and type, or a rejection.
readerOnloadDataUrl ==
  \E f \in 1..Len(files), outcome \in {"error", "unparsed", "parsed"} :
    LET file == files[f]
    IN  /\ file.pc = "ReadingDataUrl"
        /\ files' = [files EXCEPT ![f] =
             SettleFile(file, TRUE,
               IF outcome = "parsed" THEN Resolved(file.type, file.width, file.height)
               ELSE IF outcome = "unparsed" THEN Rejected("Could not parse file data URL.")
               ELSE Rejected("reader.onerror"))]
        /\ UNCHANGED <<config, conversations, activeConversationId, isLoading, error, clock, act>>

\* reader.onload / reader.onerror of a TIFF: the decoded canvas is encoded.
readerOnloadTiff ==
  \E f \in 1..Len(files), outcome \in TiffOutcomes, ctxOk \in BOOLEAN, encodeOk \in BOOLEAN :
    LET file == files[f]
    IN  /\ file.pc = "ReadingBuffer"
        /\ files' = [files EXCEPT ![f] =
             CASE outcome = "error" -> SettleFile(file, TRUE, Rejected("reader.onerror"))
               [] outcome = "nobuffer" ->
                    SettleFile(file, TRUE, Rejected("Failed to read TIFF file into buffer."))
               [] outcome = "throw" ->
                    SettleFile(file, TRUE, Rejected("An error occurred while converting the TIFF file."))
               [] outcome = "nocanvas" ->
                    SettleFile(file, TRUE, Rejected("Failed to convert TIFF to canvas."))
               [] outcome = "canvas" ->
                    SettleFile(file, ctxOk,
                               processAndEncode(file.width, file.height, ctxOk, encodeOk))]
        /\ UNCHANGED <<config, conversations, activeConversationId, isLoading, error, clock, act>>

\* The conversion of the chosen files, each callback a step.
FileNext ==
  \/ fileToBase64
  \/ imgOnload
  \/ readerOnloadDataUrl
  \/ readerOnloadTiff

FileSpec == Init /\ [][FileNext]_vars

\* ------------------------------------------------------------------ C21

\* The files whose promise has resolved.
Encoded == {f \in 1..Len(files) : files[f].pc = "Resolved"}

\* The longer and the shorter of two edges.
Longer(w, h) == IF w > h THEN w ELSE h
Shorter(w, h) == IF w > h THEN h ELSE w

\* C21 as stated: every image fileToBase64 resolves with has no edge over
\* 1024 px, and an image that came with an edge over 1024 px leaves with its
\* longer edge exactly 1024 and its shorter edge scaled in proportion and
\* rounded.
C21_LongestEdgeBound ==
  \A f \in Encoded :
    LET in == files[f]
        out == files[f].result[1]
    IN  /\ Longer(out.width, out.height) <= MAX_IMAGE_DIMENSION
        /\ Longer(in.width, in.height) > MAX_IMAGE_DIMENSION =>
             /\ Longer(out.width, out.height) = MAX_IMAGE_DIMENSION
             /\ Shorter(out.width, out.height) =
                  Round(Shorter(in.width, in.height) * MAX_IMAGE_DIMENSION,
                        Longer(in.width, in.height))

\* A PNG with an edge over 1024 px has been encoded at its own size, the
\* resized canvas having given no 2D context.
C21_Witness ==
  \E f \in Encoded :
    /\ files[f].type = "image/png"
    /\ ~files[f].resizeCtx
    /\ files[f].result[1].width = files[f].width
    /\ files[f].result[1].height = files[f].height
    /\ Longer(files[f].width, files[f].height) > MAX_IMAGE_DIMENSION

\* ------------------------------------------------------------------ C22

\* C22 as stated: the final result of an OCR job that went through Organize
\* is the correction table applied to the organized text when the organized
\* text holds a character of the Ethiopic block, and the organized text itself
\* when it holds none.
C22_CorrectionOnOrganized ==
  \A a \in OcrJobs :
    (act[a].organize # None /\ act[a].pc = "Resolved") =>
      act[a].extractedText =
        Some(OcrText("", IF hasAmharic(act[a].organizedText)
                         THEN applyOfflineAmharicCorrections(act[a].organizedText)
                         ELSE act[a].organizedText))

\* A transcription without Ethiopic characters was organized into a text
\* that holds a letter of the correction table, and the result still holds
\* that letter.
C22_Witness ==
  \E a \in OcrJobs :
    /\ act[a].pc = "Resolved"
    /\ ~hasAmharic(act[a].trimmedText)
    /\ act[a].organizedText = <<4640, 98>>
    /\ act[a].extractedText = Some(OcrText("", <<4640, 98>>))

\* ------------------------------------------------------------------ C23

\* The lower-cased prompt holds one of the seven keywords as a substring.
HasKeyword(prompt) ==
  \E kw \in ArtifactKeywords :
    \E i \in 0..(Len(prompt) - Len(kw)) :
      \A j \in 1..Len(kw) : LowerChar(prompt[i + j]) = kw[j]

\* The text-only turns of generateMixedResponse; a reasoning provider has
\* replied successfully in turn a; the secondary call of turn a was issued.
TextTurns == {a \in MixedTurns : Len(act[a].images) = 0 /\ Generating(a)}
ReasoningReplied(a) ==
  \E i \in 1..Len(act[a].calls) :
    /\ act[a].calls[i].provider \in {"DeepSeek", "OpenRouter"}
    /\ act[a].calls[i].outcome = "ok_valid"
SecondaryIssued(a) == CallsTo(a, "Gemini") # {}

\* C23: in a text-only turn the secondary generateResponse call is issued if
\* and only if a reasoning provider has replied successfully and the
\* lower-cased prompt holds a keyword; it is the call right after that reply
\* and the last of the turn, so that it is never the first call, never made
\* before the reply, and never made when the reasoning providers failed.
C23_ArtifactNeedDetection ==
  \A a \in TextTurns :
    /\ SecondaryIssued(a) <=> (ReasoningReplied(a) /\ HasKeyword(act[a].prompt))
    /\ \A i \in CallsTo(a, "Gemini") :
         /\ i > 1
         /\ i = Len(act[a].calls)
         /\ act[a].calls[i - 1].provider \in {"DeepSeek", "OpenRouter"}
         /\ act[a].calls[i - 1].outcome = "ok_valid"
    /\ (act[a].pc = "Failed" /\ ~ReasoningReplied(a)) => ~SecondaryIssued(a)

\* C23 witness: the prompt "decoder", which holds the keyword "code" inside
\* a word, got the secondary call after OpenRouter's reply, DeepSeek having
\* failed.
C23_Witness ==
  \E a \in TextTurns :
    /\ act[a].prompt = PromptDecoder
    /\ Len(act[a].calls) = 3
    /\ act[a].calls[1] = Attempt("DeepSeek", "throw")
    /\ act[a].calls[2] = Attempt("OpenRouter", "ok_valid")
    /\ act[a].calls[3].provider = "Gemini"
    /\ Settled(a)

\* ------------------------------------------------------------------ C24

\* The turns whose first call, to generateResponse itself, has settled.
DirectTurns ==
  {a \in Turns : Settled(a) /\ act[a].gemini # None /\ act[a].calls[1].provider = "Gemini"}

\* The provider resolved with a text that is not empty, has the braces of an
\* object at its ends once trimmed, and parses.
WellFormed(g) == ~g.thrown /\ g.hasText /\ g.startsBrace /\ g.endsBrace /\ g.parses

\* C24: generateResponse resolves exactly when the provider's text is
\* well-formed, with the object's chatResponse, or the fixed default sentence
\* where the field is missing, and the object's artifactContent, or the
\* previous artifact; in every other case it rejects with an error message and
\* the turn holds no result, partial or whole.
C24_ShapeCheck ==
  \A a \in DirectTurns :
    LET g == act[a].gemini[1]
    IN  IF WellFormed(g)
        THEN /\ act[a].pc = "Resolved"
             /\ act[a].result =
                  Some([chatResponse |->
                          IF g.chatResponse = None
                          THEN "I'm not sure how to respond to that, but here's the artifact."
                          ELSE g.chatResponse[1],
                        artifactContent |->
                          IF g.artifactContent = None THEN act[a].conv.artifactContent
                          ELSE g.artifactContent[1]])
        ELSE /\ act[a].pc = "Failed"
             /\ act[a].result = None
             /\ act[a].errorMessage # <<>>

\* C24 witness: a text with an opening brace and no closing one has failed
\* its turn, which holds no result.
C24_Witness ==
  \E a \in DirectTurns :
    /\ act[a].gemini[1].hasText
    /\ act[a].gemini[1].startsBrace
    /\ ~act[a].gemini[1].endsBrace
    /\ act[a].calls[1].outcome = "nonjson"
    /\ act[a].pc = "Failed"
    /\ act[a].result = None

\* ------------------------------------------------------------------ C25

\* The handler of no action other than a has run: the others await the
\* conversion of their files or have given up on it.
OnlyHandler(a) ==
  \A b \in 1..Len(act) : b # a => act[b].pc \in {"Converting", "Aborted"}

\* C25 as stated: at most one action is started and has not merged its
\* reply, and isLoading is true whenever an action awaits a provider call.
C25_SingleActionInFlight ==
  /\ Cardinality({a \in 1..Len(act) : Started(a)}) <= 1
  /\ (\E a \in 1..Len(act) : Started(a)) => isLoading

\* C25: an action is invoked only while isLoading is false; isLoading turns
\* true only in a step in which a handler starts and false only in a step in
\* which an action settles; and while an action awaits a call and no other
\* action's handler has run, isLoading is true.
C25_BusyFlag ==
  [][/\ Len(act') > Len(act) => ~isLoading
     /\ (~isLoading /\ isLoading') =>
          \E a \in 1..Len(act') : Started(a)' /\ ~Started(a)
     /\ (isLoading /\ ~isLoading') => \E a \in 1..Len(act) : Settles(a)
     /\ \A a \in 1..Len(act') : (Started(a)' /\ OnlyHandler(a)') => isLoading']_vars

\* C25 witness: isLoading is false while an action awaits its provider call,
\* an overlapping action having settled.
C25_Witness ==
  \E a, b \in 1..Len(act) : a # b /\ Started(a) /\ Settled(b) /\ ~isLoading

\* ------------------------------------------------------------------ C26

\* A conversation as handleClearConversation leaves it.
IsCleared(conv) ==
  /\ conv.messages = <<defaultWelcomeMessage>>
  /\ conv.artifactContent = defaultArtifactContent
  /\ ~conv.isArtifactVisible

\* C26 as stated: the reply of an action that was pending when its
\* conversation was cleared leaves the conversation with the welcome message
\* alone and the default artifact.
C26_ClearIsDurable ==
  [][\A a \in 1..Len(act) :
       Settles(a) =>
         \A i \in ConversationsOf(a) :
           IsCleared(conversations[i]) =>
             /\ conversations'[i].messages = <<defaultWelcomeMessage>>
             /\ conversations'[i].artifactContent = defaultArtifactContent]_vars

\* The conversation of a send that awaits its provider call has been cleared
\* after the send was started.
C26_Witness ==
  \E a \in 1..Len(act) :
    /\ Started(a)
    /\ Len(act[a].updatedMessages) > 1
    /\ \E i \in ConversationsOf(a) : IsCleared(conversations[i])

\* ------------------------------------------------------------------ C27

\* The providers of a turn's generate call and of an OCR job.
GenerateProviders == {"DeepSeek", "OpenRouter", "Gemini"}
OcrProviders == {"GeminiExtract", "GeminiOrganize"}

\* C27: the generate call of a turn calls each of DeepSeek, OpenRouter and
\* the multimodal generate at most once, three calls at most in all; an OCR
\* job calls Extract at most once and Organize at most once and no other
\* provider, so that a job resolved through the correction stage has made two
\* calls at most.
C27_NoProviderCalledTwice ==
  /\ \A a \in Turns :
       /\ Len(act[a].calls) <= 3
       /\ \A i \in 1..Len(act[a].calls) : act[a].calls[i].provider \in GenerateProviders
       /\ \A p \in GenerateProviders : Cardinality(CallsTo(a, p)) <= 1
  /\ \A a \in OcrJobs :
       /\ Preprocessed(a) =>
            /\ Len(act[a].calls) <= 2
            /\ \A i \in 1..Len(act[a].calls) : act[a].calls[i].provider \in OcrProviders
       /\ \A p \in OcrProviders : Cardinality(CallsTo(a, p)) <= 1

\* C27 witness: a turn has settled after one call to each of the three
\* providers.
C27_Witness ==
  \E a \in Turns :
    /\ Settled(a)
    /\ Len(act[a].calls) = 3
    /\ \A p \in GenerateProviders : Cardinality(CallsTo(a, p)) = 1

\* An OCR job whose transcription held Ethiopic letters has resolved through
\* the correction stage after its two calls.
C27_WitnessOcr ==
  \E a \in OcrJobs :
    /\ act[a].pc = "Resolved"
    /\ hasAmharic(act[a].trimmedText)
    /\ Len(act[a].calls) = 2

\* ------------------------------------------------------------------ C28

\* C28 as stated: a step of a send changes the title of its conversation
\* only when the send was invoked on a "New Chat" holding one message, and
\* never when the user has renamed the conversation since the send was
\* invoked.
C28_TitleStability ==
  [][\A a \in 1..Len(act') :
       TurnStep(a) =>
         \A i \in 1..Len(conversations) :
           conversations[i].id = act'[a].convId =>
             /\ conversations'[i].title # conversations[i].title =>
                  /\ act'[a].conv.title = NewChatTitle
                  /\ Len(act'[a].conv.messages) = 1
             /\ conversations[i].title # act'[a].conv.title =>
                  conversations'[i].title = conversations[i].title]_vars

\* The conversation of a send that awaits the conversion of its files or its
\* title has been renamed since the send was invoked.
C28_Witness ==
  \E a \in Turns :
    /\ act[a].pc \in {"Converting", "TitleCall"}
    /\ \E i \in ConversationsOf(a) : conversations[i].title # act[a].conv.title

\* ------------------------------------------------------------------ C29

\* User action a takes a step: it is invoked, or it moves on.
ActionStep(a) ==
  /\ a \in 1..Len(act')
  /\ a \in 1..Len(act) => act'[a] # act[a]

\* The artifact a send resolves with in this step is new to conversation
\* conv: not blank, not the conversation's artifact, not the placeholder.
NewArtifact(a, conv) ==
  /\ Trim(act'[a].result[1].artifactContent) # <<>>
  /\ act'[a].result[1].artifactContent # conv.artifactContent
  /\ act'[a].result[1].artifactContent # defaultArtifactContent

\* C29: the step in which a send resolves leaves the artifact panel of its
\* conversation visible if it was visible, and otherwise opens it exactly
\* when the returned artifact is new; every other step of a send, a send
\* that fails included, and every step of an image or OCR action leaves the
\* visibility as it was.
C29_PanelVisibility ==
  [][\A a \in 1..Len(act') :
       ActionStep(a) =>
         \A i \in 1..Len(conversations) :
           conversations'[i].isArtifactVisible =
             IF /\ conversations[i].id = act'[a].convId
                /\ act'[a].kind = "send"
                /\ Settles(a)
                /\ act'[a].pc = "Resolved"
             THEN conversations[i].isArtifactVisible \/ NewArtifact(a, conversations[i])
             ELSE conversations[i].isArtifactVisible]_vars

\* C29 witness: a send on a conversation that had the placeholder artifact
\* resolved with the artifact "<f>", and the panel is visible; the
\* conversation now holds that artifact.
C29_Witness ==
  \E a \in Turns :
    /\ act[a].pc = "Resolved"
    /\ act[a].conv.artifactContent = defaultArtifactContent
    /\ ~act[a].conv.isArtifactVisible
    /\ act[a].result[1].artifactContent = ArtifactForm
    /\ \E i \in ConversationsOf(a) :
         /\ conversations[i].isArtifactVisible
         /\ conversations[i].artifactContent = ArtifactForm

\* ------------------------------------------------------------------ C30

\* C30 as stated: no two conversations of the list have the same id.
C30_UniqueIds ==
  \A i, j \in 1..Len(conversations) :
    i # j => conversations[i].id # conversations[j].id

\* Two conversations created in the same millisecond have the same id, and an
\* action addressed to that id has written its entries into both.
C30_Witness ==
  \E i, j \in 1..Len(conversations) :
    /\ i # j
    /\ conversations[i].id = conversations[j].id
    /\ Len(conversations[i].messages) > 1
    /\ conversations[i].messages = conversations[j].messages

====
